---- MODULE Spec2Model ----
(***************************************************************************)
(* CSI collector, access-point firmware (src/active_ap/main/main.c and the *)
(* components it includes).  The model follows the tasks of the firmware:  *)
(* app_main, the CSI ingestion callback run by the radio driver, the       *)
(* forwarder task csi_data_processing_task, the mDNS discovery task and    *)
(* the WiFi event handler.                                                 *)
(***************************************************************************)
EXTENDS Integers, Sequences, FiniteSets, TLC

(***************************************************************************)
(* Program constants.                                                      *)
(***************************************************************************)
CSI_DATA_QUEUE_SIZE == 64

NUM_AUTHORIZED_DEVICES == 2

\* authorized_devices[][20]
authorized_devices == << "a0:b7:65:5a:08:a5", "24:0a:c4:c9:25:d8" >>

\* the literal copied into discovered_host_ip when no host answers
BROADCAST_ADDRESS == "192.168.4.255"

\* app_state = {0}: the address buffer starts as the empty string
EMPTY_ADDRESS == ""

\* a null sample pointer
NULL == 0

\* a null address pointer of an mDNS entry
NO_ADDR == "null"

\* no transmit_csi_data call made for the sample in hand
NO_TX == [ outcome |-> "none", dest |-> "" ]

\* the callback's argument while it is not running
NO_INFO == [ mac |-> << >>, buf |-> FALSE ]

\* csi_handler.h: csi_processing_mode_t
CSI_MODE_RAW_DATA == 1

CSI_MODE_AMPLITUDE == 2

CSI_MODE_PHASE_INFO == 3

\* main.c: the size of the forwarder's output_buffer
UDP_PAYLOAD_BUFFER_SIZE == 4096

\* command_processor.h: the size of command_buffer
MAX_COMMAND_LENGTH == 512

\* g_cmd_processor = {0}, and after memset(&g_cmd_processor, 0, ...)
CMD_PROCESSOR_ZERO ==
    [ command_buffer |-> "", buffer_position |-> 0, commands_processed |-> 0 ]

\* the clock before any settimeofday call
BOOT_TIME == [ tv_sec |-> 0, tv_usec |-> 0 ]

\* no parse_timestamp_string call made so far
NO_PARSE == [ seconds |-> 0, microseconds |-> 0, parse_success |-> FALSE, called |-> FALSE ]

\* output_buffer before the first record is built
NO_RECORD ==
    [ sync |-> FALSE, timestamp |-> BOOT_TIME, len |-> 0, header |-> 0, values |-> << >>,
      closing |-> "" ]

\* a block of sample memory that holds no copy: the len and the rx_ctrl fields
NO_FIELDS == [ len |-> 0, rx_ctrl |-> 0 ]

\* nothing typed on the console so far
NO_LINES == [ wellformed |-> 0, unknown |-> 0, other |-> 0, clock_refused |-> 0 ]

(***************************************************************************)
(* Bounds of the model.                                                    *)
(***************************************************************************)
\* samples the callback may offer to the queue (xQueueSend calls)
MaxInject == 66

\* samples the forwarder may take from the queue
MaxProcessed == 2

\* lines the operator may type on the console
MaxLines == 3

\* blocks of sample memory: one more than the callback can ever hold or hand over
Handles == 1..(MaxInject + 1)

(***************************************************************************)
(* Inputs.                                                                 *)
(***************************************************************************)
\* source identities the radio driver delivers to the callback
DEVICE_A == << 160, 183, 101, 90, 8, 165 >>
DEVICE_B == << 36, 10, 196, 201, 37, 216 >>
STRANGER == << 160, 183, 101, 90, 8, 166 >>
MacInputs == { DEVICE_A, DEVICE_B, STRANGER }

\* per-position byte values of the identities the filter is exercised with
MacByteChoices == << {160, 10}, {183, 36}, {101, 196}, {90, 165}, {8, 37, 128}, {165, 216, 166} >>
MacDomain ==
    { << b1, b2, b3, b4, b5, b6 >> :
        b1 \in MacByteChoices[1], b2 \in MacByteChoices[2], b3 \in MacByteChoices[3],
        b4 \in MacByteChoices[4], b5 \in MacByteChoices[5], b6 \in MacByteChoices[6] }
        \cup { DEVICE_A, DEVICE_B }

\* the payload the radio driver delivers with a sample: one (real, imaginary) pair
CsiPayload == << 3, 4 >>

\* the len bytes of csi_info->buf: the pair above, then the int8_t value that
\* prints widest
DriverPayload(len) ==
    [ k \in 1..len |-> IF k <= Len(CsiPayload) THEN CsiPayload[k] ELSE -128 ]

\* the len and the rx_ctrl fields of the sample the callback is called with
DriverFields == [ len |-> Len(CsiPayload), rx_ctrl |-> 0 ]

\* addresses a discovered host may report
HostAddrs == { "192.168.4.2", "192.168.4.3" }

\* one entry of an mDNS answer (mdns_result_t): addr is an address or a null
\* pointer, hostname is present or a null pointer
MdnsEntry(addr, hostname) == [ addr |-> addr, hostname |-> hostname ]

\* the answers mdns_query_ptr is exercised with, in response order
MdnsAnswers ==
    { << >>,
      << MdnsEntry("192.168.4.2", TRUE) >>,
      << MdnsEntry("192.168.4.2", TRUE), MdnsEntry("192.168.4.3", TRUE) >>,
      << MdnsEntry("192.168.4.3", TRUE), MdnsEntry("192.168.4.2", TRUE) >>,
      << MdnsEntry(NO_ADDR, TRUE), MdnsEntry("192.168.4.3", TRUE) >>,
      << MdnsEntry("192.168.4.2", FALSE), MdnsEntry("192.168.4.3", TRUE) >>,
      << MdnsEntry(NO_ADDR, TRUE) >>,
      << MdnsEntry("192.168.4.2", FALSE), MdnsEntry(NO_ADDR, FALSE) >> }

VARIABLES
    pc_main,                \* position of app_main
    queue_created,          \* app_state.csi_data_queue is a queue
    csi_data_queue,         \* the handles held by app_state.csi_data_queue
    udp_socket_descriptor,  \* app_state.udp_socket_descriptor
    wifi_started,           \* esp_wifi_start was called: WiFi events may arrive
    network_ready,          \* app_state.network_ready
    processed_packets,      \* app_state.processed_packets
    discovered_host_ip,     \* app_state.discovered_host_ip
    host_discovered,        \* app_state.host_discovered
    csi_rx_cb,              \* the callback is registered with the radio driver
    live_struct,            \* allocated wifi_csi_info_t copies
    live_buf,               \* allocated payload copies (named by their struct)
    csi_fields,             \* len and rx_ctrl of the copy in each block
    heap_error,             \* "none", or the first misuse of the heap
    pc_cb,                  \* position of research_csi_data_callback
    csi_info,               \* the callback's argument
    csi_copy,               \* the callback's local csi_copy
    pc_fwd,                 \* position of csi_data_processing_task
    csi_data,               \* the forwarder's local csi_data
    last_tx,                \* the forwarder's last transmit_csi_data call: outcome and dest_addr
    pc_disc,                \* position of mdns_discovery_task
    found_addr,             \* discovery: address of the entry being stored
    last_answer,            \* discovery: the answer of the last mdns_query_ptr
    datagrams,              \* datagrams handed to sendto successfully
    enqueued,               \* xQueueSend calls that returned pdTRUE
    dropped,                \* xQueueSend calls that failed
    received,               \* xQueueReceive calls that returned a sample
    output_buffer,          \* the forwarder's output_buffer: the record built last
    time_sync_established,  \* timestamp_manager.h: time_sync_established
    system_time,            \* the system clock, as the time it was set to last
    g_cmd_processor,        \* command_processor.h: g_cmd_processor
    stdin,                  \* console bytes not yet read by fgetc
    parsed_time,            \* synchronize_system_time: its local parsed_time
    g_csi_config,           \* csi_handler.h: g_csi_config
    typed_lines,            \* console lines typed so far, by kind
    presync_samples         \* the sample copies that existed when the clock was first set

vars == << pc_main, queue_created, csi_data_queue, udp_socket_descriptor, wifi_started,
           network_ready, processed_packets, discovered_host_ip, host_discovered,
           csi_rx_cb, live_struct, live_buf, csi_fields, heap_error, pc_cb, csi_info, csi_copy,
           pc_fwd, csi_data, last_tx, pc_disc, found_addr, last_answer, datagrams,
           enqueued, dropped, received, output_buffer, time_sync_established,
           system_time, g_cmd_processor, stdin, parsed_time, g_csi_config,
           typed_lines, presync_samples >>

main_vars == << pc_main, queue_created, udp_socket_descriptor, wifi_started, csi_rx_cb >>
peer_vars == << discovered_host_ip, host_discovered >>
heap_vars == << live_struct, live_buf, csi_fields, heap_error >>
cb_vars == << pc_cb, csi_info, csi_copy, enqueued, dropped >>
fwd_vars == << pc_fwd, csi_data, last_tx, processed_packets, datagrams, received, output_buffer >>
disc_vars == << pc_disc, found_addr, last_answer >>
time_vars == << time_sync_established, system_time, parsed_time, presync_samples >>
console_vars == << time_vars, g_cmd_processor, stdin, g_csi_config, typed_lines >>

(***************************************************************************)
(* Admission filter.                                                       *)
(***************************************************************************)
HexDigits == << "0", "1", "2", "3", "4", "5", "6", "7",
                "8", "9", "a", "b", "c", "d", "e", "f" >>

\* "%02x" of one uint8_t
Hex02x(byte) == HexDigits[(byte \div 16) + 1] \o HexDigits[(byte % 16) + 1]

\* snprintf(mac_address_string, 20, "%02x:%02x:%02x:%02x:%02x:%02x", ...)
FormatMacLower(device_mac) ==
    Hex02x(device_mac[1]) \o ":" \o Hex02x(device_mac[2]) \o ":" \o
    Hex02x(device_mac[3]) \o ":" \o Hex02x(device_mac[4]) \o ":" \o
    Hex02x(device_mac[5]) \o ":" \o Hex02x(device_mac[6])

\* a filter that compares only the first five bytes
Authorized_FiveBytes(device_mac) ==
    \E device_index \in 1..NUM_AUTHORIZED_DEVICES :
        \E last \in 0..255 :
            FormatMacLower([device_mac EXCEPT ![6] = last]) = authorized_devices[device_index]

is_authorized_research_device(device_mac) ==
    \E device_index \in 1..NUM_AUTHORIZED_DEVICES :
        FormatMacLower(device_mac) = authorized_devices[device_index]

(***************************************************************************)
(* Heap: malloc and free of the sample copies.                             *)
(***************************************************************************)
\* Blocks handed to the queue are numbered in the order of their acceptance and
\* are not used again; a block the callback releases itself returns to the
\* allocator.
FreeBlocks == { h \in Handles : h > enqueued /\ h \notin live_struct }

MallocBlock == CHOOSE h \in FreeBlocks : \A g \in FreeBlocks : h <= g

\* the error a free(3) of block h of set live causes
FreeError(h, live, err) ==
    IF err = "none" /\ h \notin live THEN "double_free" ELSE err

\* the error a read through handle h causes
DerefError(h, err) ==
    IF err = "none" /\ (h \notin live_struct \/ h \notin live_buf)
    THEN "use_after_free" ELSE err

Init ==
    /\ pc_main = "storage"
    /\ queue_created = FALSE
    /\ csi_data_queue = << >>
    /\ udp_socket_descriptor = 0
    /\ wifi_started = FALSE
    /\ network_ready = FALSE
    /\ processed_packets = 0
    /\ discovered_host_ip = EMPTY_ADDRESS
    /\ host_discovered = FALSE
    /\ csi_rx_cb = FALSE
    /\ live_struct = {}
    /\ live_buf = {}
    /\ csi_fields = [ h \in Handles |-> NO_FIELDS ]
    /\ heap_error = "none"
    /\ pc_cb = "idle"
    /\ csi_info = NO_INFO
    /\ csi_copy = NULL
    /\ pc_fwd = "none"
    /\ csi_data = NULL
    /\ last_tx = NO_TX
    /\ pc_disc = "none"
    /\ found_addr = NO_ADDR
    /\ last_answer = << >>
    /\ datagrams = << >>
    /\ enqueued = 0
    /\ dropped = 0
    /\ received = 0
    /\ output_buffer = NO_RECORD
    /\ time_sync_established = FALSE
    /\ system_time = BOOT_TIME
    /\ g_cmd_processor = CMD_PROCESSOR_ZERO
    /\ stdin = ""
    /\ parsed_time = NO_PARSE
    /\ g_csi_config = [ mode |-> 0 ]
    /\ typed_lines = NO_LINES
    /\ presync_samples = {}

(***************************************************************************)
(* app_main.                                                               *)
(***************************************************************************)
\* an app_main that goes on after a failed initialisation step
MainStep_IgnoresFailure(from, ok, to) ==
    /\ pc_main = from
    /\ pc_main' = to

\* one initialisation step of app_main: on failure app_main returns
MainStep(from, ok, to) ==
    /\ pc_main = from
    /\ pc_main' = IF ok THEN to ELSE "returned"

\* initialize_non_volatile_storage, reset_time_sync_status, initialize_command_processor
MainStorage ==
    /\ \E ok \in BOOLEAN :
        /\ MainStep("storage", ok, "queue")
        /\ time_sync_established' = IF ok THEN FALSE ELSE time_sync_established
        /\ g_cmd_processor' = IF ok THEN CMD_PROCESSOR_ZERO ELSE g_cmd_processor
    /\ UNCHANGED << queue_created, udp_socket_descriptor, wifi_started, csi_rx_cb >>
    /\ UNCHANGED << system_time, parsed_time, presync_samples, stdin, g_csi_config,
                    typed_lines >>
    /\ UNCHANGED << csi_data_queue, network_ready, peer_vars, heap_vars, cb_vars,
                    fwd_vars, disc_vars >>

\* an app_main that does not look at the result of xQueueCreate
MainCreateQueue_Unchecked ==
    /\ \E ok \in BOOLEAN :
        /\ MainStep("queue", TRUE, "wifi")
        /\ queue_created' = ok
    /\ csi_data_queue' = << >>
    /\ UNCHANGED << udp_socket_descriptor, wifi_started, csi_rx_cb >>
    /\ UNCHANGED << network_ready, console_vars, peer_vars, heap_vars, cb_vars, fwd_vars, disc_vars >>

\* xQueueCreate(CSI_DATA_QUEUE_SIZE, sizeof(wifi_csi_info_t*))
MainCreateQueue ==
    /\ \E ok \in BOOLEAN :
        /\ MainStep("queue", ok, "wifi")
        /\ queue_created' = ok
    /\ csi_data_queue' = << >>
    /\ UNCHANGED << udp_socket_descriptor, wifi_started, csi_rx_cb >>
    /\ UNCHANGED << network_ready, console_vars, peer_vars, heap_vars, cb_vars, fwd_vars, disc_vars >>

\* configure_wifi_access_point
MainConfigureWifi ==
    /\ \E ok \in BOOLEAN :
        /\ MainStep("wifi", ok, "socket")
        /\ wifi_started' = ok
    /\ UNCHANGED << queue_created, udp_socket_descriptor, csi_rx_cb >>
    /\ UNCHANGED << csi_data_queue, network_ready, console_vars, peer_vars, heap_vars, cb_vars,
                    fwd_vars, disc_vars >>

\* initialize_udp_socket
MainCreateSocket ==
    /\ \E sock \in { -1, 3 } :
        /\ MainStep("socket", sock >= 0, "csi_init")
        /\ udp_socket_descriptor' = sock
    /\ UNCHANGED << queue_created, wifi_started, csi_rx_cb >>
    /\ UNCHANGED << csi_data_queue, network_ready, console_vars, peer_vars, heap_vars, cb_vars,
                    fwd_vars, disc_vars >>

\* initialize_csi_collection("collector", CSI_MODE_AMPLITUDE, research_csi_data_callback)
MainInitCsi ==
    /\ \E ok \in BOOLEAN :
        /\ MainStep("csi_init", ok, "create_processor")
        /\ csi_rx_cb' = ok
    /\ g_csi_config' = [ g_csi_config EXCEPT !.mode = CSI_MODE_AMPLITUDE ]
    /\ UNCHANGED << queue_created, udp_socket_descriptor, wifi_started >>
    /\ UNCHANGED << time_vars, g_cmd_processor, stdin, typed_lines >>
    /\ UNCHANGED << csi_data_queue, network_ready, peer_vars, heap_vars, cb_vars,
                    fwd_vars, disc_vars >>

\* xTaskCreate(csi_data_processing_task, ...)
MainCreateProcessor ==
    /\ MainStep("create_processor", TRUE, "create_discovery")
    /\ pc_fwd' = "start"
    /\ UNCHANGED << queue_created, udp_socket_descriptor, wifi_started, csi_rx_cb >>
    /\ UNCHANGED << csi_data, last_tx, processed_packets, datagrams, received, output_buffer >>
    /\ UNCHANGED << csi_data_queue, network_ready, console_vars, peer_vars, heap_vars, cb_vars, disc_vars >>

\* xTaskCreate(mdns_discovery_task, ...), then start_command_monitoring_loop
MainCreateDiscovery ==
    /\ MainStep("create_discovery", TRUE, "monitor")
    /\ pc_disc' = "wait_network"
    /\ UNCHANGED << queue_created, udp_socket_descriptor, wifi_started, csi_rx_cb >>
    /\ UNCHANGED << found_addr, last_answer >>
    /\ UNCHANGED << csi_data_queue, network_ready, console_vars, peer_vars, heap_vars, cb_vars, fwd_vars >>

(***************************************************************************)
(* WiFi event handler.                                                     *)
(***************************************************************************)
\* the events posted for an access point that is started and, as in this
\* firmware, never stopped (no esp_wifi_stop call)
NetworkEvents ==
    { "WIFI_EVENT_AP_START", "WIFI_EVENT_AP_STACONNECTED", "WIFI_EVENT_AP_STADISCONNECTED" }

network_event_handler ==
    /\ wifi_started
    /\ \E event_id \in NetworkEvents :
        network_ready' = CASE event_id = "WIFI_EVENT_AP_START" -> TRUE
                           [] event_id = "WIFI_EVENT_AP_STOP"  -> FALSE
                           [] OTHER                            -> network_ready
    /\ UNCHANGED << main_vars, csi_data_queue, console_vars, peer_vars, heap_vars,
                    cb_vars, fwd_vars, disc_vars >>

(***************************************************************************)
(* research_csi_data_callback, run by the radio driver.                    *)
(***************************************************************************)
CbReturn ==
    /\ pc_cb' = "idle"
    /\ csi_info' = NO_INFO
    /\ csi_copy' = NULL

\* the driver delivers one sample
CbInvoke ==
    /\ csi_rx_cb
    /\ pc_cb = "idle"
    /\ enqueued + dropped < MaxInject
    /\ \E mac \in MacInputs, buf \in BOOLEAN :
        csi_info' = [ mac |-> mac, buf |-> buf ]
    /\ pc_cb' = "entry"
    /\ UNCHANGED << csi_copy, enqueued, dropped >>
    /\ UNCHANGED << main_vars, csi_data_queue, network_ready, console_vars, peer_vars, heap_vars,
                    fwd_vars, disc_vars >>

\* a callback without the test of the payload pointer
CbFilter_AdmitsNullPayload ==
    /\ pc_cb = "entry"
    /\ IF is_authorized_research_device(csi_info.mac)
       THEN /\ pc_cb' = "malloc_struct"
            /\ UNCHANGED << csi_info, csi_copy >>
       ELSE CbReturn
    /\ UNCHANGED << enqueued, dropped >>
    /\ UNCHANGED << main_vars, csi_data_queue, network_ready, console_vars, peer_vars, heap_vars,
                    fwd_vars, disc_vars >>

\* if (!csi_info || !csi_info->buf) return;  if (!is_authorized...) return;
CbFilter ==
    /\ pc_cb = "entry"
    /\ IF csi_info.buf /\ is_authorized_research_device(csi_info.mac)
       THEN /\ pc_cb' = "malloc_struct"
            /\ UNCHANGED << csi_info, csi_copy >>
       ELSE CbReturn
    /\ UNCHANGED << enqueued, dropped >>
    /\ UNCHANGED << main_vars, csi_data_queue, network_ready, console_vars, peer_vars, heap_vars,
                    fwd_vars, disc_vars >>

\* csi_copy = malloc(sizeof(wifi_csi_info_t)); memcpy(csi_copy, csi_info, ...)
CbMallocStruct ==
    /\ pc_cb = "malloc_struct"
    /\ \E ok \in BOOLEAN :
        IF ok
        THEN /\ csi_copy' = MallocBlock
             /\ live_struct' = live_struct \cup { MallocBlock }
             /\ csi_fields' = [ csi_fields EXCEPT ![MallocBlock] = DriverFields ]
             /\ pc_cb' = "malloc_buf"
             /\ UNCHANGED csi_info
        ELSE /\ CbReturn
             /\ UNCHANGED << live_struct, csi_fields >>
    /\ UNCHANGED << live_buf, heap_error, enqueued, dropped >>
    /\ UNCHANGED << main_vars, csi_data_queue, network_ready, console_vars, peer_vars, fwd_vars, disc_vars >>

\* csi_copy->buf = malloc(csi_info->len); on failure free(csi_copy); else memcpy
CbMallocBuf ==
    /\ pc_cb = "malloc_buf"
    /\ \E ok \in BOOLEAN :
        IF ok
        THEN /\ live_buf' = live_buf \cup { csi_copy }
             /\ pc_cb' = "send"
             /\ UNCHANGED << csi_info, csi_copy, live_struct, csi_fields, heap_error >>
        ELSE /\ heap_error' = FreeError(csi_copy, live_struct, heap_error)
             /\ live_struct' = live_struct \ { csi_copy }
             /\ csi_fields' = [ csi_fields EXCEPT ![csi_copy] = NO_FIELDS ]
             /\ CbReturn
             /\ UNCHANGED live_buf
    /\ UNCHANGED << enqueued, dropped >>
    /\ UNCHANGED << main_vars, csi_data_queue, network_ready, console_vars, peer_vars, fwd_vars, disc_vars >>

\* an xQueueSend that stores the handle whatever the queue holds
CbSend_Unbounded ==
    /\ pc_cb = "send"
    /\ csi_data_queue' = Append(csi_data_queue, csi_copy)
    /\ enqueued' = enqueued + 1
    /\ CbReturn
    /\ UNCHANGED dropped
    /\ UNCHANGED << main_vars, network_ready, console_vars, peer_vars, heap_vars, fwd_vars, disc_vars >>

\* a full queue that makes room by overwriting its oldest handle
CbSend_EvictOldest ==
    /\ pc_cb = "send"
    /\ IF Len(csi_data_queue) < CSI_DATA_QUEUE_SIZE
       THEN /\ csi_data_queue' = Append(csi_data_queue, csi_copy)
            /\ UNCHANGED dropped
       ELSE /\ csi_data_queue' = Append(Tail(csi_data_queue), csi_copy)
            /\ dropped' = dropped + 1
    /\ enqueued' = enqueued + 1
    /\ CbReturn
    /\ UNCHANGED << main_vars, network_ready, console_vars, peer_vars, heap_vars, fwd_vars, disc_vars >>

\* xQueueSend(..., portMAX_DELAY): the call waits until a slot is free
CbSend_Blocking ==
    /\ pc_cb = "send"
    /\ Len(csi_data_queue) < CSI_DATA_QUEUE_SIZE
    /\ csi_data_queue' = Append(csi_data_queue, csi_copy)
    /\ enqueued' = enqueued + 1
    /\ CbReturn
    /\ UNCHANGED dropped
    /\ UNCHANGED << main_vars, network_ready, console_vars, peer_vars, heap_vars, fwd_vars, disc_vars >>

\* a queue that takes one handle more than its length
CbSend_OffByOne ==
    /\ pc_cb = "send"
    /\ IF Len(csi_data_queue) <= CSI_DATA_QUEUE_SIZE
       THEN /\ csi_data_queue' = Append(csi_data_queue, csi_copy)
            /\ enqueued' = enqueued + 1
            /\ CbReturn
            /\ UNCHANGED dropped
       ELSE /\ dropped' = dropped + 1
            /\ pc_cb' = "drop"
            /\ UNCHANGED << csi_data_queue, enqueued, csi_info, csi_copy >>
    /\ UNCHANGED << main_vars, network_ready, console_vars, peer_vars, heap_vars, fwd_vars, disc_vars >>

\* xQueueSend(app_state.csi_data_queue, &csi_copy, 0): with a wait of zero ticks
\* the call returns at once, pdTRUE after storing the handle, errQUEUE_FULL otherwise
CbSend ==
    /\ pc_cb = "send"
    /\ IF Len(csi_data_queue) < CSI_DATA_QUEUE_SIZE
       THEN /\ csi_data_queue' = Append(csi_data_queue, csi_copy)
            /\ enqueued' = enqueued + 1
            /\ CbReturn
            /\ UNCHANGED dropped
       ELSE /\ dropped' = dropped + 1
            /\ pc_cb' = "drop"
            /\ UNCHANGED << csi_data_queue, enqueued, csi_info, csi_copy >>
    /\ UNCHANGED << main_vars, network_ready, console_vars, peer_vars, heap_vars, fwd_vars, disc_vars >>

\* queue full: free(csi_copy->buf); free(csi_copy);
CbDrop ==
    /\ pc_cb = "drop"
    /\ heap_error' = FreeError(csi_copy, live_struct,
                          FreeError(csi_copy, live_buf, DerefError(csi_copy, heap_error)))
    /\ live_buf' = live_buf \ { csi_copy }
    /\ live_struct' = live_struct \ { csi_copy }
    /\ csi_fields' = [ csi_fields EXCEPT ![csi_copy] = NO_FIELDS ]
    /\ CbReturn
    /\ UNCHANGED << enqueued, dropped >>
    /\ UNCHANGED << main_vars, csi_data_queue, network_ready, console_vars, peer_vars, fwd_vars, disc_vars >>

(***************************************************************************)
(* csi_data_processing_task: the forwarder.                                *)
(***************************************************************************)
\* output_buffer = malloc(UDP_PAYLOAD_BUFFER_SIZE); on failure vTaskDelete(NULL)
FwdStart ==
    /\ pc_fwd = "start"
    /\ \E ok \in BOOLEAN : pc_fwd' = IF ok THEN "receive" ELSE "deleted"
    /\ UNCHANGED << csi_data, last_tx, processed_packets, datagrams, received, output_buffer >>
    /\ UNCHANGED << main_vars, csi_data_queue, network_ready, console_vars, peer_vars, heap_vars,
                    cb_vars, disc_vars >>

\* an xQueueReceive that takes the handle stored last
FwdReceive_TakesNewest ==
    /\ pc_fwd = "receive"
    /\ csi_data_queue # << >>
    /\ received < MaxProcessed
    /\ csi_data' = csi_data_queue[Len(csi_data_queue)]
    /\ csi_data_queue' = SubSeq(csi_data_queue, 1, Len(csi_data_queue) - 1)
    /\ received' = received + 1
    /\ pc_fwd' = IF csi_data_queue[Len(csi_data_queue)] = NULL THEN "receive" ELSE "format"
    /\ last_tx' = NO_TX
    /\ UNCHANGED << processed_packets, datagrams, output_buffer >>
    /\ UNCHANGED << main_vars, network_ready, console_vars, peer_vars, heap_vars, cb_vars, disc_vars >>

\* xQueueReceive(app_state.csi_data_queue, &csi_data, portMAX_DELAY): blocks while
\* the queue is empty; if (!csi_data) continue;
FwdReceive ==
    /\ pc_fwd = "receive"
    /\ csi_data_queue # << >>
    /\ received < MaxProcessed
    /\ csi_data' = Head(csi_data_queue)
    /\ csi_data_queue' = Tail(csi_data_queue)
    /\ received' = received + 1
    /\ pc_fwd' = IF Head(csi_data_queue) = NULL THEN "receive" ELSE "format"
    /\ last_tx' = NO_TX
    /\ UNCHANGED << processed_packets, datagrams, output_buffer >>
    /\ UNCHANGED << main_vars, network_ready, console_vars, peer_vars, heap_vars, cb_vars, disc_vars >>

\* characters a non-negative int takes when printed with %d
RECURSIVE DecimalDigits(_)
DecimalDigits(n) == IF n < 10 THEN 1 ELSE 1 + DecimalDigits(n \div 10)

\* the integer part of sqrt(n), n a sum of two squares of int8_t values
Isqrt(n) == CHOOSE r \in 0..182 : r * r <= n /\ n < (r + 1) * (r + 1)

\* characters snprintf(..., "%.4f ", amplitude) writes
AmplitudeWidth(real_part, imag_part) ==
    DecimalDigits(Isqrt(real_part * real_part + imag_part * imag_part)) + 6

\* characters an int takes when printed with %d
PrintedWidth(n) == IF n < 0 THEN 1 + DecimalDigits(0 - n) ELSE DecimalDigits(n)

\* the offset after the first snprintf, its return value: "CSI_Data,AP,", the
\* identity, the 19 rx_ctrl fields (the driver's metadata, every field printed
\* as rx_ctrl), the synchronized flag, the timestamp "%lld.%06ld", the payload
\* length and "["
HeaderOffset(rx_ctrl, timestamp, len) ==
    12 + 17 + 1 + (19 * (PrintedWidth(rx_ctrl) + 1)) + 2
       + (DecimalDigits(timestamp.tv_sec) + 7) + 1 + DecimalDigits(len) + 2

\* the characters snprintf(output_buffer + offset, size, text) stores before its
\* terminating zero; a negative size is a huge size_t
Stored(size, text) ==
    IF size < 0 THEN text
    ELSE IF size = 0 THEN ""
    ELSE IF Len(text) < size THEN text
    ELSE SubSeq(text, 1, size - 1)

\* a loop that goes on to a 65th pair
RECURSIVE AmplitudeValues_OnePairMore(_, _, _, _)
AmplitudeValues_OnePairMore(data_ptr, len, i, offset) ==
    IF i <= 64 /\ (i * 2 + 1) < len /\ offset < UDP_PAYLOAD_BUFFER_SIZE - 50
    THEN LET real_part == data_ptr[(i * 2) + 1]
             imag_part == data_ptr[(i * 2 + 1) + 1]
         IN  << [ kind |-> "amplitude", real_part |-> real_part, imag_part |-> imag_part,
                  pair |-> i, offset |-> offset + AmplitudeWidth(real_part, imag_part) ] >>
             \o AmplitudeValues_OnePairMore(data_ptr, len, i + 1,
                                offset + AmplitudeWidth(real_part, imag_part))
    ELSE << >>

\* for (i = 0; i < 64 && (i * 2 + 1) < csi_data->len && offset < 4096 - 50; i++):
\* one amplitude per (real, imaginary) pair of data_ptr, from pair i on, with the
\* pair it was read from and the offset after its snprintf
RECURSIVE AmplitudeValues(_, _, _, _)
AmplitudeValues(data_ptr, len, i, offset) ==
    IF i < 64 /\ (i * 2 + 1) < len /\ offset < UDP_PAYLOAD_BUFFER_SIZE - 50
    THEN LET real_part == data_ptr[(i * 2) + 1]
             imag_part == data_ptr[(i * 2 + 1) + 1]
         IN  << [ kind |-> "amplitude", real_part |-> real_part, imag_part |-> imag_part,
                  pair |-> i, offset |-> offset + AmplitudeWidth(real_part, imag_part) ] >>
             \o AmplitudeValues(data_ptr, len, i + 1,
                                offset + AmplitudeWidth(real_part, imag_part))
    ELSE << >>

\* the offset when the loop has ended
LoopOffset(header, values) ==
    IF values = << >> THEN header ELSE values[Len(values)].offset

\* a record whose array is left open
CloseRecord_Unclosed(len, header, values) ==
    [ sync |-> time_sync_established,
      timestamp |-> system_time,
      len |-> len,
      header |-> header,
      values |-> values,
      closing |-> "" ]

\* snprintf(output_buffer + offset, UDP_PAYLOAD_BUFFER_SIZE - offset, "]\n")
CloseRecord(len, header, values) ==
    [ sync |-> time_sync_established,
      timestamp |-> system_time,
      len |-> len,
      header |-> header,
      values |-> values,
      closing |-> Stored(UDP_PAYLOAD_BUFFER_SIZE - LoopOffset(header, values), "]\n") ]

\* the record the forwarder builds: is_time_synchronized() and
\* get_formatted_timestamp() are read here, and the values are amplitudes
FormatRecord(rx_ctrl, data_ptr, len) ==
    CloseRecord(len, HeaderOffset(rx_ctrl, system_time, len),
                AmplitudeValues(data_ptr, len, 0, HeaderOffset(rx_ctrl, system_time, len)))

\* the snprintf calls that build the record from csi_data and csi_data->buf
FwdFormat ==
    /\ pc_fwd = "format"
    /\ heap_error' = DerefError(csi_data, heap_error)
    /\ output_buffer' = FormatRecord(csi_fields[csi_data].rx_ctrl,
                                     DriverPayload(csi_fields[csi_data].len),
                                     csi_fields[csi_data].len)
    /\ pc_fwd' = "transmit"
    /\ UNCHANGED << live_struct, live_buf, csi_fields >>
    /\ UNCHANGED << csi_data, last_tx, processed_packets, datagrams, received >>
    /\ UNCHANGED << main_vars, csi_data_queue, network_ready, console_vars, peer_vars, cb_vars, disc_vars >>

\* a forwarder that goes back to the queue when nothing could be sent
FwdTransmit_SkipLeaks ==
    /\ pc_fwd = "transmit"
    /\ IF ~host_discovered \/ udp_socket_descriptor < 0
       THEN /\ last_tx' = [ outcome |-> "skipped", dest |-> "" ]
            /\ pc_fwd' = "receive"
            /\ csi_data' = NULL
            /\ UNCHANGED << processed_packets, datagrams >>
       ELSE /\ last_tx' = [ outcome |-> "sent", dest |-> discovered_host_ip ]
            /\ processed_packets' = processed_packets + 1
            /\ datagrams' = Append(datagrams,
                               [ sample |-> csi_data, dest |-> discovered_host_ip ])
            /\ pc_fwd' = "release"
            /\ UNCHANGED csi_data
    /\ UNCHANGED << received, output_buffer >>
    /\ UNCHANGED << main_vars, csi_data_queue, network_ready, console_vars, peer_vars, heap_vars,
                    cb_vars, disc_vars >>

\* a transmit step that tries again after a failed sendto
FwdTransmit_RetryOnFailure ==
    /\ pc_fwd = "transmit"
    /\ IF ~host_discovered \/ udp_socket_descriptor < 0
       THEN /\ last_tx' = [ outcome |-> "skipped", dest |-> "" ]
            /\ pc_fwd' = "release"
            /\ UNCHANGED << processed_packets, datagrams >>
       ELSE \E bytes_sent \in { -1, 1 } :
                IF bytes_sent < 0
                THEN /\ last_tx' = [ outcome |-> "failed", dest |-> discovered_host_ip ]
                     /\ pc_fwd' = "transmit"
                     /\ UNCHANGED << processed_packets, datagrams >>
                ELSE /\ last_tx' = [ outcome |-> "sent", dest |-> discovered_host_ip ]
                     /\ processed_packets' = processed_packets + 1
                     /\ datagrams' = Append(datagrams,
                                        [ sample |-> csi_data, dest |-> discovered_host_ip ])
                     /\ pc_fwd' = "release"
    /\ UNCHANGED << csi_data, received, output_buffer >>
    /\ UNCHANGED << main_vars, csi_data_queue, network_ready, console_vars, peer_vars,
                    heap_vars, cb_vars, disc_vars >>

\* transmit_csi_data(csi_data, output_buffer); its result is not looked at
FwdTransmit ==
    /\ pc_fwd = "transmit"
    /\ IF ~host_discovered \/ udp_socket_descriptor < 0
       THEN /\ last_tx' = [ outcome |-> "skipped", dest |-> "" ]
            /\ UNCHANGED << processed_packets, datagrams >>
       ELSE \E bytes_sent \in { -1, 1 } :
                IF bytes_sent < 0
                THEN /\ last_tx' = [ outcome |-> "failed", dest |-> discovered_host_ip ]
                     /\ UNCHANGED << processed_packets, datagrams >>
                ELSE /\ last_tx' = [ outcome |-> "sent", dest |-> discovered_host_ip ]
                     /\ processed_packets' = processed_packets + 1
                     /\ datagrams' = Append(datagrams,
                                        [ sample |-> csi_data, dest |-> discovered_host_ip ])
    /\ pc_fwd' = "release"
    /\ UNCHANGED << csi_data, received, output_buffer >>
    /\ UNCHANGED << main_vars, csi_data_queue, network_ready, console_vars, peer_vars, heap_vars,
                    cb_vars, disc_vars >>

\* a release that forgets free(csi_data->buf)
FwdRelease_KeepsPayload ==
    /\ pc_fwd = "release"
    /\ heap_error' = FreeError(csi_data, live_struct, heap_error)
    /\ live_struct' = live_struct \ { csi_data }
    /\ csi_fields' = [ csi_fields EXCEPT ![csi_data] = NO_FIELDS ]
    /\ csi_data' = NULL
    /\ pc_fwd' = "receive"
    /\ UNCHANGED << live_buf, last_tx, processed_packets, datagrams, received, output_buffer >>
    /\ UNCHANGED << main_vars, csi_data_queue, network_ready, console_vars, peer_vars, cb_vars, disc_vars >>

\* free(csi_data->buf); free(csi_data); csi_data = NULL;
FwdRelease ==
    /\ pc_fwd = "release"
    /\ heap_error' = FreeError(csi_data, live_struct,
                          FreeError(csi_data, live_buf, DerefError(csi_data, heap_error)))
    /\ live_buf' = live_buf \ { csi_data }
    /\ live_struct' = live_struct \ { csi_data }
    /\ csi_fields' = [ csi_fields EXCEPT ![csi_data] = NO_FIELDS ]
    /\ csi_data' = NULL
    /\ pc_fwd' = "receive"
    /\ UNCHANGED << last_tx, processed_packets, datagrams, received, output_buffer >>
    /\ UNCHANGED << main_vars, csi_data_queue, network_ready, console_vars, peer_vars, cb_vars, disc_vars >>

(***************************************************************************)
(* mdns_discovery_task and discover_host_computer.                         *)
(***************************************************************************)
\* while (!app_state.network_ready) vTaskDelay(1000 ms);
DiscWaitNetwork ==
    /\ pc_disc = "wait_network"
    /\ network_ready
    /\ pc_disc' = "setup"
    /\ UNCHANGED << found_addr, last_answer >>
    /\ UNCHANGED << main_vars, csi_data_queue, network_ready, console_vars, peer_vars, heap_vars,
                    cb_vars, fwd_vars >>

\* if (setup_mdns_service() != ESP_OK) { vTaskDelete(NULL); return; }
DiscSetup ==
    /\ pc_disc = "setup"
    /\ \E ok \in BOOLEAN : pc_disc' = IF ok THEN "check" ELSE "deleted"
    /\ UNCHANGED << found_addr, last_answer >>
    /\ UNCHANGED << main_vars, csi_data_queue, network_ready, console_vars, peer_vars, heap_vars,
                    cb_vars, fwd_vars >>

\* while (true) { if (!app_state.host_discovered) discover_host_computer(); ...
DiscCheck ==
    /\ pc_disc = "check"
    /\ pc_disc' = IF ~host_discovered THEN "query" ELSE "delay"
    /\ UNCHANGED << found_addr, last_answer >>
    /\ UNCHANGED << main_vars, csi_data_queue, network_ready, console_vars, peer_vars, heap_vars,
                    cb_vars, fwd_vars >>

\* a loop that keeps overwriting the stored host: the last usable entry wins
RECURSIVE FirstUsable_LastWins(_, _)
FirstUsable_LastWins(results, i) ==
    IF i > Len(results) THEN 0
    ELSE LET later == FirstUsable_LastWins(results, i + 1)
         IN  IF later # 0 THEN later
             ELSE IF results[i].addr # NO_ADDR /\ results[i].hostname THEN i
             ELSE 0

\* the while (current) loop: index of the first entry at or after i that has an
\* address and a hostname, 0 when the list ends first
RECURSIVE FirstUsable(_, _)
FirstUsable(results, i) ==
    IF i > Len(results) THEN 0
    ELSE IF results[i].addr # NO_ADDR /\ results[i].hostname THEN i
    ELSE FirstUsable(results, i + 1)

\* mdns_query_ptr("_ssh", "_tcp", 3000, 20, &results) and the walk over the
\* results up to the first entry that is stored
DiscQuery ==
    /\ pc_disc = "query"
    /\ \E result_ok \in BOOLEAN, results \in MdnsAnswers :
        IF ~result_ok
        THEN /\ pc_disc' = "delay"
             /\ UNCHANGED << found_addr, last_answer >>
        ELSE LET first == FirstUsable(results, 1)
             IN  IF first # 0 /\ ~host_discovered
                 THEN /\ pc_disc' = "store_ip"
                      /\ found_addr' = results[first].addr
                      /\ last_answer' = results
                 ELSE /\ pc_disc' = "fallback"
                      /\ last_answer' = results
                      /\ UNCHANGED found_addr
    /\ UNCHANGED << main_vars, csi_data_queue, network_ready, console_vars, peer_vars, heap_vars,
                    cb_vars, fwd_vars >>

\* strcpy(app_state.discovered_host_ip, inet_ntoa(current->addr->addr.u_addr.ip4));
DiscStoreIp ==
    /\ pc_disc = "store_ip"
    /\ discovered_host_ip' = found_addr
    /\ pc_disc' = "set_flag"
    /\ UNCHANGED << host_discovered, found_addr, last_answer >>
    /\ UNCHANGED << main_vars, csi_data_queue, network_ready, console_vars, heap_vars, cb_vars, fwd_vars >>

\* app_state.host_discovered = true; the rest of the loop stores nothing more
DiscSetFlag ==
    /\ pc_disc = "set_flag"
    /\ host_discovered' = TRUE
    /\ found_addr' = NO_ADDR
    /\ pc_disc' = "fallback"
    /\ UNCHANGED << discovered_host_ip, last_answer >>
    /\ UNCHANGED << main_vars, csi_data_queue, network_ready, console_vars, heap_vars, cb_vars, fwd_vars >>

\* a fallback to the gateway address instead of the broadcast address
DiscFallback_Gateway ==
    /\ pc_disc = "fallback"
    /\ last_answer' = << >>
    /\ IF ~host_discovered
       THEN /\ discovered_host_ip' = "192.168.4.1"
            /\ pc_disc' = "fallback_flag"
       ELSE /\ pc_disc' = "delay"
            /\ UNCHANGED discovered_host_ip
    /\ UNCHANGED << host_discovered, found_addr >>
    /\ UNCHANGED << main_vars, csi_data_queue, network_ready, console_vars, heap_vars, cb_vars, fwd_vars >>

\* a fallback taken without looking at host_discovered
DiscFallback_Unconditional ==
    /\ pc_disc = "fallback"
    /\ last_answer' = << >>
    /\ discovered_host_ip' = BROADCAST_ADDRESS
    /\ pc_disc' = "fallback_flag"
    /\ UNCHANGED << host_discovered, found_addr >>
    /\ UNCHANGED << main_vars, csi_data_queue, network_ready, console_vars, heap_vars, cb_vars, fwd_vars >>

\* mdns_query_results_free(results);
\* if (!app_state.host_discovered) strcpy(app_state.discovered_host_ip, "192.168.4.255");
DiscFallback ==
    /\ pc_disc = "fallback"
    /\ last_answer' = << >>
    /\ IF ~host_discovered
       THEN /\ discovered_host_ip' = BROADCAST_ADDRESS
            /\ pc_disc' = "fallback_flag"
       ELSE /\ pc_disc' = "delay"
            /\ UNCHANGED discovered_host_ip
    /\ UNCHANGED << host_discovered, found_addr >>
    /\ UNCHANGED << main_vars, csi_data_queue, network_ready, console_vars, heap_vars, cb_vars, fwd_vars >>

\* app_state.host_discovered = true; return ESP_OK;
DiscFallbackFlag ==
    /\ pc_disc = "fallback_flag"
    /\ host_discovered' = TRUE
    /\ pc_disc' = "delay"
    /\ UNCHANGED << discovered_host_ip, found_addr, last_answer >>
    /\ UNCHANGED << main_vars, csi_data_queue, network_ready, console_vars, heap_vars, cb_vars, fwd_vars >>

\* vTaskDelay(pdMS_TO_TICKS(30000));
DiscDelay ==
    /\ pc_disc = "delay"
    /\ pc_disc' = "check"
    /\ UNCHANGED << found_addr, last_answer >>
    /\ UNCHANGED << main_vars, csi_data_queue, network_ready, console_vars, peer_vars, heap_vars,
                    cb_vars, fwd_vars >>

(***************************************************************************)
(* The same hand-over of the peer address, store by store.  The address    *)
(* buffer and the flag are plain fields of app_state, written by the       *)
(* discovery task and read by the forwarder task with no lock, atomic or   *)
(* barrier between them: nothing orders the bytes strcpy stores and the     *)
(* store of the flag as the other task sees them.  The actions above take   *)
(* them in source order; the actions below take them in any order.         *)
(***************************************************************************)
\* the string strcpy is copying into app_state.discovered_host_ip
HandoffTarget == IF pc_disc = "store_ip" THEN found_addr ELSE BROADCAST_ADDRESS

\* mdns_query_results_free(results); if (!app_state.host_discovered) {
HandoffFallbackCheck ==
    /\ pc_disc = "fallback"
    /\ last_answer' = << >>
    /\ pc_disc' = IF ~host_discovered THEN "fallback_flag" ELSE "delay"
    /\ UNCHANGED found_addr
    /\ UNCHANGED << main_vars, csi_data_queue, network_ready, console_vars, peer_vars, heap_vars,
                    cb_vars, fwd_vars >>

\* strcpy stores the next byte of the address (the buffer was all zero)
HandoffStoreChar ==
    /\ pc_disc \in { "store_ip", "fallback_flag" }
    /\ Len(discovered_host_ip) < Len(HandoffTarget)
    /\ discovered_host_ip' = SubSeq(HandoffTarget, 1, Len(discovered_host_ip) + 1)
    /\ UNCHANGED << host_discovered, disc_vars >>
    /\ UNCHANGED << main_vars, csi_data_queue, network_ready, console_vars, heap_vars, cb_vars, fwd_vars >>

\* the store of app_state.host_discovered = true reaches memory
HandoffStoreFlag ==
    /\ pc_disc \in { "store_ip", "fallback_flag" }
    /\ ~host_discovered
    /\ host_discovered' = TRUE
    /\ UNCHANGED << discovered_host_ip, disc_vars >>
    /\ UNCHANGED << main_vars, csi_data_queue, network_ready, console_vars, heap_vars, cb_vars, fwd_vars >>

\* both stores are done: the walk over the results, or the function, goes on
HandoffComplete ==
    /\ pc_disc \in { "store_ip", "fallback_flag" }
    /\ host_discovered
    /\ discovered_host_ip = HandoffTarget
    /\ pc_disc' = IF pc_disc = "store_ip" THEN "fallback" ELSE "delay"
    /\ found_addr' = NO_ADDR
    /\ UNCHANGED last_answer
    /\ UNCHANGED << main_vars, csi_data_queue, network_ready, console_vars, peer_vars, heap_vars,
                    cb_vars, fwd_vars >>

(***************************************************************************)
(* timestamp_manager.h: sscanf of a timestamp, parsing, setting the clock. *)
(***************************************************************************)
\* the i-th character of a C string
Char(str, i) == SubSeq(str, i, i)

\* isspace in the "C" locale
isspace(c) == c \in { " ", "\t", "\n", "\r", "\f" }

DecimalChars == << "0", "1", "2", "3", "4", "5", "6", "7", "8", "9" >>

isdigit(c) == \E d \in 1..10 : DecimalChars[d] = c

DigitValue(c) == (CHOOSE d \in 1..10 : DecimalChars[d] = c) - 1

\* sscanf skipping white space: the first index from i on that holds none
RECURSIVE SkipSpace(_, _)
SkipSpace(str, i) ==
    IF i <= Len(str) /\ isspace(Char(str, i)) THEN SkipSpace(str, i + 1) ELSE i

\* the digits of a conversion from index i on: their value and the index after
RECURSIVE ScanDigits(_, _, _)
ScanDigits(str, i, acc) ==
    IF i <= Len(str) /\ isdigit(Char(str, i))
    THEN ScanDigits(str, i + 1, (acc * 10) + DigitValue(Char(str, i)))
    ELSE [ value |-> acc, next |-> i ]

\* the result of a conversion whose digits d were looked for from index k on,
\* after the first character that is no white space, at index j
ScanResult(str, j, k, d) ==
    IF d.next = k
    THEN [ status |-> "mismatch", value |-> 0, next |-> k ]
    ELSE [ status |-> "ok",
           value |-> IF Char(str, j) = "-" THEN 0 - d.value ELSE d.value,
           next |-> d.next ]

\* the digits after an optional sign at index j
ScanSigned(str, j, k) == ScanResult(str, j, k, ScanDigits(str, k, 0))

\* a conversion from the first character that is no white space, at index j
ScanFrom(str, j) ==
    IF j > Len(str)
    THEN [ status |-> "eof", value |-> 0, next |-> j ]
    ELSE ScanSigned(str, j, IF Char(str, j) \in { "+", "-" } THEN j + 1 ELSE j)

\* one %lld or %ld conversion at index i: white space is skipped, a sign is
\* optional, one digit at least is needed
ScanInteger(str, i) == ScanFrom(str, SkipSpace(str, i))

\* the literal text of a format from its k-th character on, matched against
\* str from index i on: a white-space character of the format matches any
\* amount of white space, any other character matches itself
RECURSIVE MatchLiteral(_, _, _, _)
MatchLiteral(str, i, lit, k) ==
    IF k > Len(lit) THEN [ status |-> "ok", next |-> i ]
    ELSE IF isspace(Char(lit, k)) THEN MatchLiteral(str, SkipSpace(str, i), lit, k + 1)
    ELSE IF i > Len(str) THEN [ status |-> "eof", next |-> i ]
    ELSE IF Char(str, i) = Char(lit, k) THEN MatchLiteral(str, i + 1, lit, k + 1)
    ELSE [ status |-> "mismatch", next |-> i ]

\* the text before "%lld.%ld" in TIMESTAMP_FORMAT_EXTENDED and TIMESTAMP_FORMAT_SIMPLE
TIMESTAMP_FORMAT_EXTENDED == "SYNC_TIME: "

TIMESTAMP_FORMAT_SIMPLE == ""

\* sscanf stopped before the first conversion was assigned
NoFields(status) ==
    [ fields |-> IF status = "eof" THEN -1 ELSE 0, sec_val |-> 0, usec_val |-> 0 ]

\* sscanf after the conversion usec of "%ld"
ScanAfterMicros(sec, usec) ==
    IF usec.status # "ok"
    THEN [ fields |-> 1, sec_val |-> sec.value, usec_val |-> 0 ]
    ELSE [ fields |-> 2, sec_val |-> sec.value, usec_val |-> usec.value ]

\* sscanf after the conversion sec of "%lld": the "." of the format, then "%ld"
ScanAfterSeconds(input_string, sec) ==
    IF sec.status # "ok" THEN NoFields(sec.status)
    ELSE IF sec.next > Len(input_string) \/ Char(input_string, sec.next) # "."
    THEN [ fields |-> 1, sec_val |-> sec.value, usec_val |-> 0 ]
    ELSE ScanAfterMicros(sec, ScanInteger(input_string, sec.next + 1))

\* sscanf after the match m of the text before "%lld"
ScanAfterLiteral(input_string, m) ==
    IF m.status # "ok" THEN NoFields(m.status)
    ELSE ScanAfterSeconds(input_string, ScanInteger(input_string, m.next))

\* sscanf(input_string, prefix "%lld.%ld", &sec_val, &usec_val): the number of
\* fields assigned (EOF = -1 when the input ends before the first conversion)
\* and the values assigned; a field not assigned is given as 0
sscanf(input_string, prefix) ==
    ScanAfterLiteral(input_string, MatchLiteral(input_string, 1, prefix, 1))

validate_timestamp_format(input_string) ==
    \/ sscanf(input_string, TIMESTAMP_FORMAT_EXTENDED).fields > 0
    \/ sscanf(input_string, TIMESTAMP_FORMAT_SIMPLE).fields > 0

\* if (parsed_fields > 0) { parse_success = true; microseconds out of range
\* become 0 }, for the fields and values parsed that the last sscanf gave
ParseResult(parsed) ==
    IF parsed.fields > 0
    THEN [ seconds |-> parsed.sec_val,
           microseconds |-> IF parsed.usec_val < 0 \/ parsed.usec_val >= 1000000
                            THEN 0 ELSE parsed.usec_val,
           parse_success |-> TRUE, called |-> TRUE ]
    ELSE [ seconds |-> 0, microseconds |-> 0, parse_success |-> FALSE, called |-> TRUE ]

\* a range check that lets 1000000 microseconds through
ParseResult_OffByOne(parsed) ==
    IF parsed.fields > 0
    THEN [ seconds |-> parsed.sec_val,
           microseconds |-> IF parsed.usec_val < 0 \/ parsed.usec_val > 1000000
                            THEN 0 ELSE parsed.usec_val,
           parse_success |-> TRUE, called |-> TRUE ]
    ELSE [ seconds |-> 0, microseconds |-> 0, parse_success |-> FALSE, called |-> TRUE ]

\* if (parsed_fields <= 0) parsed_fields = sscanf(timestamp_str, TIMESTAMP_FORMAT_SIMPLE, ...)
SecondAttempt(timestamp_str, extended) ==
    IF extended.fields <= 0 THEN sscanf(timestamp_str, TIMESTAMP_FORMAT_SIMPLE) ELSE extended

\* a parse that tries the "SYNC_TIME: " form only
parse_timestamp_string_ExtendedOnly(timestamp_str) ==
    ParseResult(sscanf(timestamp_str, TIMESTAMP_FORMAT_EXTENDED))

\* a parse whose range check lets 1000000 microseconds through
parse_timestamp_string_OffByOne(timestamp_str) ==
    ParseResult_OffByOne(
        SecondAttempt(timestamp_str, sscanf(timestamp_str, TIMESTAMP_FORMAT_EXTENDED)))

parse_timestamp_string(timestamp_str) ==
    ParseResult(SecondAttempt(timestamp_str, sscanf(timestamp_str, TIMESTAMP_FORMAT_EXTENDED)))

\* what synchronize_system_time does with the parse result parsed
SyncResult(parsed, settime_ok) ==
    [ parsed_time |-> parsed,
      clock_set |-> parsed.parse_success /\ settime_ok,
      result |-> parsed.parse_success /\ settime_ok ]

\* synchronize_system_time(timestamp_input), settimeofday returning 0 exactly
\* when settime_ok: the parse result, whether the clock was set, and the
\* function's result
synchronize_system_time(timestamp_input, settime_ok) ==
    SyncResult(parse_timestamp_string(timestamp_input), settime_ok)

(***************************************************************************)
(* command_processor.h: classification and dispatch of a console line.     *)
(***************************************************************************)
UpperChars == "ABCDEFGHIJKLMNOPQRSTUVWXYZ"

LowerChars == "abcdefghijklmnopqrstuvwxyz"

tolower(c) ==
    IF \E i \in 1..26 : Char(UpperChars, i) = c
    THEN Char(LowerChars, CHOOSE i \in 1..26 : Char(UpperChars, i) = c)
    ELSE c

\* strcasecmp from the i-th characters on: the strings are compared character
\* by character, without regard to case, up to the first difference
RECURSIVE CaseCompare(_, _, _)
CaseCompare(a, b, i) ==
    IF i > Len(a) \/ i > Len(b) THEN (IF Len(a) = Len(b) THEN 0 ELSE 1)
    ELSE IF tolower(Char(a, i)) # tolower(Char(b, i)) THEN 1
    ELSE CaseCompare(a, b, i + 1)

\* strcasecmp(a, b): 0 exactly when the strings are equal up to case
strcasecmp(a, b) == CaseCompare(a, b, 1)

\* while (end > str && isspace(*end)) end--;
RECURSIVE TrimEnd(_, _)
TrimEnd(str, end) ==
    IF end > 1 /\ isspace(Char(str, end)) THEN TrimEnd(str, end - 1) ELSE end

\* the string from its first character that is no white space, cut after its
\* last character that is none
TrimMoved(moved) ==
    IF moved = "" THEN "" ELSE SubSeq(moved, 1, TrimEnd(moved, Len(moved)))

trim_whitespace(str) == TrimMoved(SubSeq(str, SkipSpace(str, 1), Len(str)))

\* the chain of tests of classify_command on the trimmed copy temp_cmd
ClassifyTrimmed(temp_cmd) ==
    IF validate_timestamp_format(temp_cmd) THEN "CMD_TYPE_TIME_SYNC"
    ELSE IF Len(temp_cmd) >= 4 /\ SubSeq(temp_cmd, 1, 4) = "CSI_" THEN "CMD_TYPE_CSI_CONFIG"
    ELSE IF strcasecmp(temp_cmd, "help") = 0 \/ strcasecmp(temp_cmd, "?") = 0
    THEN "CMD_TYPE_HELP"
    ELSE IF strcasecmp(temp_cmd, "status") = 0 \/ strcasecmp(temp_cmd, "info") = 0
    THEN "CMD_TYPE_SYSTEM_INFO"
    ELSE "CMD_TYPE_UNKNOWN"

\* strncpy(temp_cmd, command_text, MAX_COMMAND_LENGTH - 1), trim, classify
classify_command(command_text) ==
    ClassifyTrimmed(trim_whitespace(
        IF Len(command_text) > MAX_COMMAND_LENGTH - 1
        THEN SubSeq(command_text, 1, MAX_COMMAND_LENGTH - 1) ELSE command_text))

\* synchronize_system_time was not called
NO_SYNC == [ parsed_time |-> NO_PARSE, clock_set |-> FALSE, result |-> FALSE ]

\* the time-sync branch: handled exactly when synchronize_system_time returned true
TimeSyncHandled(sync) == [ command_handled |-> sync.result, sync |-> sync ]

\* a dispatch that forgets to report a help command as handled
execute_classified_command_HelpUncounted(command_text, cmd_type, settime_ok) ==
    CASE cmd_type = "CMD_TYPE_TIME_SYNC" ->
            TimeSyncHandled(synchronize_system_time(command_text, settime_ok))
      [] cmd_type = "CMD_TYPE_HELP" -> [ command_handled |-> FALSE, sync |-> NO_SYNC ]
      [] cmd_type = "CMD_TYPE_SYSTEM_INFO" -> [ command_handled |-> TRUE, sync |-> NO_SYNC ]
      [] cmd_type = "CMD_TYPE_CSI_CONFIG" -> [ command_handled |-> TRUE, sync |-> NO_SYNC ]
      [] OTHER -> [ command_handled |-> FALSE, sync |-> NO_SYNC ]

\* a dispatch whose default branch reports the command as handled
execute_classified_command_CountsUnknown(command_text, cmd_type, settime_ok) ==
    CASE cmd_type = "CMD_TYPE_TIME_SYNC" ->
            TimeSyncHandled(synchronize_system_time(command_text, settime_ok))
      [] cmd_type = "CMD_TYPE_HELP" -> [ command_handled |-> TRUE, sync |-> NO_SYNC ]
      [] cmd_type = "CMD_TYPE_SYSTEM_INFO" -> [ command_handled |-> TRUE, sync |-> NO_SYNC ]
      [] cmd_type = "CMD_TYPE_CSI_CONFIG" -> [ command_handled |-> TRUE, sync |-> NO_SYNC ]
      [] OTHER -> [ command_handled |-> TRUE, sync |-> NO_SYNC ]

\* execute_classified_command(command_text, cmd_type): whether the command was
\* handled, and what synchronize_system_time did when it was called; the help
\* and status handlers only print
execute_classified_command(command_text, cmd_type, settime_ok) ==
    CASE cmd_type = "CMD_TYPE_TIME_SYNC" ->
            TimeSyncHandled(synchronize_system_time(command_text, settime_ok))
      [] cmd_type = "CMD_TYPE_HELP" -> [ command_handled |-> TRUE, sync |-> NO_SYNC ]
      [] cmd_type = "CMD_TYPE_SYSTEM_INFO" -> [ command_handled |-> TRUE, sync |-> NO_SYNC ]
      [] cmd_type = "CMD_TYPE_CSI_CONFIG" -> [ command_handled |-> TRUE, sync |-> NO_SYNC ]
      [] OTHER -> [ command_handled |-> FALSE, sync |-> NO_SYNC ]

\* a dispatch after which the line buffer and the cursor are left as they were
ApplyCommand_KeepsBuffer(done) ==
    /\ g_cmd_processor' =
           [ g_cmd_processor EXCEPT
               !.commands_processed = @ + (IF done.command_handled THEN 1 ELSE 0) ]
    /\ parsed_time' = IF done.sync.parsed_time.called
                      THEN done.sync.parsed_time ELSE parsed_time
    /\ IF done.sync.clock_set
       THEN /\ system_time' = [ tv_sec |-> done.sync.parsed_time.seconds,
                                tv_usec |-> done.sync.parsed_time.microseconds ]
            /\ time_sync_established' = TRUE
            /\ presync_samples' = IF time_sync_established
                                  THEN presync_samples ELSE live_struct
       ELSE UNCHANGED << system_time, time_sync_established, presync_samples >>
    /\ typed_lines' =
           IF done.sync.parsed_time.parse_success /\ ~done.sync.clock_set
           THEN [ typed_lines EXCEPT !.clock_refused = @ + 1 ]
           ELSE typed_lines

\* a dispatch whose failed time-sync command clears the synchronized flag
ApplyCommand_ClearsFlagOnFailure(done) ==
    /\ g_cmd_processor' =
           [ command_buffer |-> "", buffer_position |-> 0,
             commands_processed |->
                 g_cmd_processor.commands_processed
                     + (IF done.command_handled THEN 1 ELSE 0) ]
    /\ parsed_time' = IF done.sync.parsed_time.called
                      THEN done.sync.parsed_time ELSE parsed_time
    /\ IF done.sync.clock_set
       THEN /\ system_time' = [ tv_sec |-> done.sync.parsed_time.seconds,
                                tv_usec |-> done.sync.parsed_time.microseconds ]
            /\ time_sync_established' = TRUE
            /\ presync_samples' = IF time_sync_established
                                  THEN presync_samples ELSE live_struct
       ELSE /\ time_sync_established' =
                   IF done.sync.parsed_time.called THEN FALSE ELSE time_sync_established
            /\ UNCHANGED << system_time, presync_samples >>
    /\ typed_lines' =
           IF done.sync.parsed_time.parse_success /\ ~done.sync.clock_set
           THEN [ typed_lines EXCEPT !.clock_refused = @ + 1 ]
           ELSE typed_lines

\* the effect of a dispatch that ended as done: the counter, the clock and the
\* flag, and the reset of the line buffer
ApplyCommand(done) ==
    /\ g_cmd_processor' =
           [ command_buffer |-> "", buffer_position |-> 0,
             commands_processed |->
                 g_cmd_processor.commands_processed
                     + (IF done.command_handled THEN 1 ELSE 0) ]
    /\ parsed_time' = IF done.sync.parsed_time.called
                      THEN done.sync.parsed_time ELSE parsed_time
    /\ IF done.sync.clock_set
       THEN /\ system_time' = [ tv_sec |-> done.sync.parsed_time.seconds,
                                tv_usec |-> done.sync.parsed_time.microseconds ]
            /\ time_sync_established' = TRUE
            /\ presync_samples' = IF time_sync_established
                                  THEN presync_samples ELSE live_struct
       ELSE UNCHANGED << system_time, time_sync_established, presync_samples >>
    /\ typed_lines' =
           IF done.sync.parsed_time.parse_success /\ ~done.sync.clock_set
           THEN [ typed_lines EXCEPT !.clock_refused = @ + 1 ]
           ELSE typed_lines

\* process_received_command on the line command_text
DispatchCommand(command_text, settime_ok) ==
    IF Len(command_text) = 0
    THEN [ command_handled |-> FALSE, sync |-> NO_SYNC ]
    ELSE execute_classified_command(command_text, classify_command(command_text), settime_ok)

\* process_received_command on the buffered line, then the reset of the buffer
ProcessReceivedCommand(settime_ok) ==
    ApplyCommand(DispatchCommand(g_cmd_processor.command_buffer, settime_ok))

\* a loop whose space test lets the cursor reach MAX_COMMAND_LENGTH
ScanInputChar_CursorPastEnd ==
    /\ pc_main = "monitor"
    /\ stdin # ""
    /\ stdin' = SubSeq(stdin, 2, Len(stdin))
    /\ LET input_char == Char(stdin, 1)
       IN  IF input_char = "\n" \/ input_char = "\r"
           THEN \E settime_ok \in BOOLEAN : ProcessReceivedCommand(settime_ok)
           ELSE /\ IF g_cmd_processor.buffer_position < MAX_COMMAND_LENGTH
                   THEN g_cmd_processor' =
                           [ g_cmd_processor EXCEPT
                               !.command_buffer = @ \o input_char,
                               !.buffer_position = @ + 1 ]
                   ELSE g_cmd_processor' =
                           [ g_cmd_processor EXCEPT
                               !.command_buffer = "", !.buffer_position = 0 ]
                /\ UNCHANGED << time_vars, typed_lines >>
    /\ UNCHANGED g_csi_config
    /\ UNCHANGED << main_vars, csi_data_queue, network_ready, peer_vars, heap_vars,
                    cb_vars, fwd_vars, disc_vars >>

\* a loop whose overflow reset keeps the byte that did not fit as the first byte
\* of the emptied buffer
ScanInputChar_KeepsOverflowByte ==
    /\ pc_main = "monitor"
    /\ stdin # ""
    /\ stdin' = SubSeq(stdin, 2, Len(stdin))
    /\ LET input_char == Char(stdin, 1)
       IN  IF input_char = "\n" \/ input_char = "\r"
           THEN \E settime_ok \in BOOLEAN : ProcessReceivedCommand(settime_ok)
           ELSE /\ IF g_cmd_processor.buffer_position < MAX_COMMAND_LENGTH - 1
                   THEN g_cmd_processor' =
                           [ g_cmd_processor EXCEPT
                               !.command_buffer = @ \o input_char,
                               !.buffer_position = @ + 1 ]
                   ELSE g_cmd_processor' =
                           [ g_cmd_processor EXCEPT
                               !.command_buffer = input_char, !.buffer_position = 1 ]
                /\ UNCHANGED << time_vars, typed_lines >>
    /\ UNCHANGED g_csi_config
    /\ UNCHANGED << main_vars, csi_data_queue, network_ready, peer_vars, heap_vars,
                    cb_vars, fwd_vars, disc_vars >>

\* one turn of the while loop of scan_for_input_data: fgetc took a byte
ScanInputChar ==
    /\ pc_main = "monitor"
    /\ stdin # ""
    /\ stdin' = SubSeq(stdin, 2, Len(stdin))
    /\ LET input_char == Char(stdin, 1)
       IN  IF input_char = "\n" \/ input_char = "\r"
           THEN \E settime_ok \in BOOLEAN : ProcessReceivedCommand(settime_ok)
           ELSE /\ IF g_cmd_processor.buffer_position < MAX_COMMAND_LENGTH - 1
                   THEN g_cmd_processor' =
                           [ g_cmd_processor EXCEPT
                               !.command_buffer = @ \o input_char,
                               !.buffer_position = @ + 1 ]
                   ELSE g_cmd_processor' =
                           [ g_cmd_processor EXCEPT
                               !.command_buffer = "", !.buffer_position = 0 ]
                /\ UNCHANGED << time_vars, typed_lines >>
    /\ UNCHANGED g_csi_config
    /\ UNCHANGED << main_vars, csi_data_queue, network_ready, peer_vars, heap_vars,
                    cb_vars, fwd_vars, disc_vars >>

\* csi_handler.h: set_csi_processing_mode(new_mode)
set_csi_processing_mode ==
    /\ \E new_mode \in { CSI_MODE_RAW_DATA, CSI_MODE_AMPLITUDE, CSI_MODE_PHASE_INFO } :
        g_csi_config' = [ g_csi_config EXCEPT !.mode = new_mode ]
    /\ UNCHANGED << time_vars, g_cmd_processor, stdin, typed_lines >>
    /\ UNCHANGED << main_vars, csi_data_queue, network_ready, peer_vars, heap_vars,
                    cb_vars, fwd_vars, disc_vars >>

(***************************************************************************)
(* The console: the lines an operator types.                               *)
(***************************************************************************)
\* well-formed help, status and time-sync lines
WellFormedLines ==
    { "help", "?", "status", "INFO", "SYNC_TIME: 100.500000", "100.500000" }

\* lines that are no command
UnknownLines == { "reboot", "helpme" }

\* other lines: a reserved CSI_ command, timestamps with a microsecond field
\* out of range or missing, a time-sync line after white space, a time-sync
\* prefix without a number, a blank line
OtherLines ==
    { "CSI_MODE 1", "100.-5", "7.1000000", "SYNC_TIME: 7.999999", "8",
      " SYNC_TIME: 100.500000", "SYNC_TIME: abc", " " }

ConsoleLines == WellFormedLines \cup UnknownLines \cup OtherLines

\* the operator types one line and its terminator
ConsoleInput ==
    /\ pc_main = "monitor"
    /\ stdin = ""
    /\ typed_lines.wellformed + typed_lines.unknown + typed_lines.other < MaxLines
    /\ \E line \in ConsoleLines, terminator \in { "\n", "\r" } :
        /\ stdin' = line \o terminator
        /\ typed_lines' =
               IF line \in WellFormedLines THEN [ typed_lines EXCEPT !.wellformed = @ + 1 ]
               ELSE IF line \in UnknownLines THEN [ typed_lines EXCEPT !.unknown = @ + 1 ]
               ELSE [ typed_lines EXCEPT !.other = @ + 1 ]
    /\ UNCHANGED << time_vars, g_cmd_processor, g_csi_config >>
    /\ UNCHANGED << main_vars, csi_data_queue, network_ready, peer_vars, heap_vars,
                    cb_vars, fwd_vars, disc_vars >>

(***************************************************************************)
(* The firmware.                                                           *)
(***************************************************************************)
Next ==
    \/ MainStorage
    \/ MainCreateQueue
    \/ MainConfigureWifi
    \/ MainCreateSocket
    \/ MainInitCsi
    \/ MainCreateProcessor
    \/ MainCreateDiscovery
    \/ network_event_handler
    \/ CbInvoke
    \/ CbFilter
    \/ CbMallocStruct
    \/ CbMallocBuf
    \/ CbSend
    \/ CbDrop
    \/ FwdStart
    \/ FwdReceive
    \/ FwdFormat
    \/ FwdTransmit
    \/ FwdRelease
    \/ DiscWaitNetwork
    \/ DiscSetup
    \/ DiscCheck
    \/ DiscQuery
    \/ DiscStoreIp
    \/ DiscSetFlag
    \/ DiscFallback
    \/ DiscFallbackFlag
    \/ DiscDelay

Spec == Init /\ [][Next]_vars

(***************************************************************************)
(* The admission filter on its own: the firmware is up, the driver has     *)
(* just called the callback with some identity, and the callback filters.  *)
(***************************************************************************)
InitFilter ==
    /\ pc_main = "monitor"
    /\ queue_created = TRUE
    /\ csi_data_queue = << >>
    /\ udp_socket_descriptor = 3
    /\ wifi_started = TRUE
    /\ network_ready = FALSE
    /\ processed_packets = 0
    /\ discovered_host_ip = EMPTY_ADDRESS
    /\ host_discovered = FALSE
    /\ csi_rx_cb = TRUE
    /\ live_struct = {}
    /\ live_buf = {}
    /\ csi_fields = [ h \in Handles |-> NO_FIELDS ]
    /\ heap_error = "none"
    /\ pc_cb = "entry"
    /\ csi_info \in [ mac : MacDomain, buf : BOOLEAN ]
    /\ csi_copy = NULL
    /\ pc_fwd = "receive"
    /\ csi_data = NULL
    /\ last_tx = NO_TX
    /\ pc_disc = "wait_network"
    /\ found_addr = NO_ADDR
    /\ last_answer = << >>
    /\ datagrams = << >>
    /\ enqueued = 0
    /\ dropped = 0
    /\ received = 0
    /\ output_buffer = NO_RECORD
    /\ time_sync_established = FALSE
    /\ system_time = BOOT_TIME
    /\ g_cmd_processor = CMD_PROCESSOR_ZERO
    /\ stdin = ""
    /\ parsed_time = NO_PARSE
    /\ g_csi_config = [ mode |-> CSI_MODE_AMPLITUDE ]
    /\ typed_lines = NO_LINES
    /\ presync_samples = {}

SpecFilter == InitFilter /\ [][CbFilter]_vars

(***************************************************************************)
(* The command monitoring loop on its own: app_main has reached            *)
(* start_command_monitoring_loop, no sample arrives, and an operator types *)
(* lines on the console.                                                   *)
(***************************************************************************)
InitCommand ==
    /\ pc_main = "monitor"
    /\ queue_created = TRUE
    /\ udp_socket_descriptor = 3
    /\ wifi_started = TRUE
    /\ network_ready = TRUE
    /\ processed_packets = 0
    /\ csi_rx_cb = TRUE
    /\ heap_error = "none"
    /\ pc_cb = "idle"
    /\ csi_info = NO_INFO
    /\ csi_copy = NULL
    /\ pc_fwd = "receive"
    /\ csi_data = NULL
    /\ last_tx = NO_TX
    /\ found_addr = NO_ADDR
    /\ last_answer = << >>
    /\ datagrams = << >>
    /\ dropped = 0
    /\ received = 0
    /\ output_buffer = NO_RECORD
    /\ time_sync_established = FALSE
    /\ system_time = BOOT_TIME
    /\ g_cmd_processor = CMD_PROCESSOR_ZERO
    /\ parsed_time = NO_PARSE
    /\ g_csi_config = [ mode |-> CSI_MODE_AMPLITUDE ]
    /\ typed_lines = NO_LINES
    /\ presync_samples = {}
    /\ csi_data_queue = << >>
    /\ live_struct = {}
    /\ live_buf = {}
    /\ csi_fields = [ h \in Handles |-> NO_FIELDS ]
    /\ enqueued = 0
    /\ discovered_host_ip = EMPTY_ADDRESS
    /\ host_discovered = FALSE
    /\ pc_disc = "wait_network"
    /\ stdin = ""

NextCommand ==
    \/ ConsoleInput
    \/ ScanInputChar

SpecCommand == InitCommand /\ [][NextCommand]_vars

(***************************************************************************)
(* The command monitoring loop fed with lines as long as the line buffer:  *)
(* a command, then a line of 510 to 513 bytes, then "help".                *)
(***************************************************************************)
\* n copies of the character c
RECURSIVE Repeat(_, _)
Repeat(c, n) ==
    IF n = 0 THEN ""
    ELSE IF n % 2 = 0 THEN Repeat(c \o c, n \div 2)
    ELSE c \o Repeat(c, n - 1)

\* lines around the size of command_buffer: a run of filler bytes, alone or
\* with a command behind it
OverflowLines ==
    { Repeat("x", n) \o tail :
        n \in (MAX_COMMAND_LENGTH - 2)..(MAX_COMMAND_LENGTH + 1), tail \in { "", "help" } }

\* console input: a first command, one of the lines above, and a last command
OverflowInputs ==
    { first \o line \o "\n" \o "help\r" :
        first \in { "SYNC_TIME: 100.500000\n", "status\r" }, line \in OverflowLines }

InitOverflow ==
    /\ pc_main = "monitor"
    /\ queue_created = TRUE
    /\ udp_socket_descriptor = 3
    /\ wifi_started = TRUE
    /\ network_ready = TRUE
    /\ processed_packets = 0
    /\ csi_rx_cb = TRUE
    /\ heap_error = "none"
    /\ pc_cb = "idle"
    /\ csi_info = NO_INFO
    /\ csi_copy = NULL
    /\ pc_fwd = "receive"
    /\ csi_data = NULL
    /\ last_tx = NO_TX
    /\ found_addr = NO_ADDR
    /\ last_answer = << >>
    /\ datagrams = << >>
    /\ dropped = 0
    /\ received = 0
    /\ output_buffer = NO_RECORD
    /\ time_sync_established = FALSE
    /\ system_time = BOOT_TIME
    /\ g_cmd_processor = CMD_PROCESSOR_ZERO
    /\ parsed_time = NO_PARSE
    /\ g_csi_config = [ mode |-> CSI_MODE_AMPLITUDE ]
    /\ typed_lines = NO_LINES
    /\ presync_samples = {}
    /\ csi_data_queue = << >>
    /\ live_struct = {}
    /\ live_buf = {}
    /\ csi_fields = [ h \in Handles |-> NO_FIELDS ]
    /\ enqueued = 0
    /\ discovered_host_ip = EMPTY_ADDRESS
    /\ host_discovered = FALSE
    /\ pc_disc = "wait_network"
    /\ stdin \in OverflowInputs

NextOverflow ==
    \/ ScanInputChar

SpecOverflow == InitOverflow /\ [][NextOverflow]_vars

(***************************************************************************)
(* The forwarder and the console: two samples were captured and queued     *)
(* before any time-sync command, the peer is the fallback address, a       *)
(* time-sync line is waiting on the console, and the processing mode may   *)
(* be set at any time.                                                     *)
(***************************************************************************)
InitForward ==
    /\ pc_main = "monitor"
    /\ queue_created = TRUE
    /\ udp_socket_descriptor = 3
    /\ wifi_started = TRUE
    /\ network_ready = TRUE
    /\ processed_packets = 0
    /\ csi_rx_cb = TRUE
    /\ heap_error = "none"
    /\ pc_cb = "idle"
    /\ csi_info = NO_INFO
    /\ csi_copy = NULL
    /\ pc_fwd = "receive"
    /\ csi_data = NULL
    /\ last_tx = NO_TX
    /\ found_addr = NO_ADDR
    /\ last_answer = << >>
    /\ datagrams = << >>
    /\ dropped = 0
    /\ received = 0
    /\ output_buffer = NO_RECORD
    /\ time_sync_established = FALSE
    /\ system_time = BOOT_TIME
    /\ g_cmd_processor = CMD_PROCESSOR_ZERO
    /\ parsed_time = NO_PARSE
    /\ g_csi_config = [ mode |-> CSI_MODE_AMPLITUDE ]
    /\ typed_lines = NO_LINES
    /\ presync_samples = {}
    /\ csi_data_queue = << 1, 2 >>
    /\ live_struct = { 1, 2 }
    /\ live_buf = { 1, 2 }
    /\ csi_fields = [ h \in Handles |-> IF h \in { 1, 2 } THEN DriverFields ELSE NO_FIELDS ]
    /\ enqueued = 2
    /\ discovered_host_ip = BROADCAST_ADDRESS
    /\ host_discovered = TRUE
    /\ pc_disc = "delay"
    /\ stdin \in { "SYNC_TIME: 100.500000\n", "status\r" }

NextForward ==
    \/ FwdReceive
    \/ FwdFormat
    \/ FwdTransmit
    \/ FwdRelease
    \/ ScanInputChar
    \/ set_csi_processing_mode

SpecForward == InitForward /\ [][NextForward]_vars

(***************************************************************************)
(* The formatter on its inputs: two samples are queued, the payload length *)
(* and the rx_ctrl fields of the first drawn from the sets below, the      *)
(* clock is at boot time or at its latest value, and the forwarder         *)
(* formats, sends and releases them.                                       *)
(***************************************************************************)
\* csi_info->len of the queued samples: none, one byte, one pair, an odd
\* length, the lengths around 64 pairs, and three times 128 bytes
PayloadLens == { 0, 1, 2, 3, 127, 128, 129, 130, 384 }

\* the value every rx_ctrl field prints: the shortest and the longest %d
RxCtrlValues == { 0, -2147483647 }

\* the clock get_formatted_timestamp reads
FormatTimes == { BOOT_TIME, [ tv_sec |-> 2147483647, tv_usec |-> 999999 ] }

InitFormat ==
    /\ pc_main = "monitor"
    /\ queue_created = TRUE
    /\ udp_socket_descriptor = 3
    /\ wifi_started = TRUE
    /\ network_ready = TRUE
    /\ processed_packets = 0
    /\ csi_rx_cb = TRUE
    /\ heap_error = "none"
    /\ pc_cb = "idle"
    /\ csi_info = NO_INFO
    /\ csi_copy = NULL
    /\ pc_fwd = "receive"
    /\ csi_data = NULL
    /\ last_tx = NO_TX
    /\ found_addr = NO_ADDR
    /\ last_answer = << >>
    /\ datagrams = << >>
    /\ dropped = 0
    /\ received = 0
    /\ output_buffer = NO_RECORD
    /\ system_time \in FormatTimes
    /\ time_sync_established = (system_time # BOOT_TIME)
    /\ g_cmd_processor = CMD_PROCESSOR_ZERO
    /\ parsed_time = NO_PARSE
    /\ g_csi_config = [ mode |-> CSI_MODE_AMPLITUDE ]
    /\ typed_lines = NO_LINES
    /\ presync_samples = {}
    /\ csi_data_queue = << 1, 2 >>
    /\ live_struct = { 1, 2 }
    /\ live_buf = { 1, 2 }
    /\ \E first \in [ len : PayloadLens, rx_ctrl : RxCtrlValues ],
          second \in [ len : { Len(CsiPayload), 129 }, rx_ctrl : { 0 } ] :
         csi_fields = [ h \in Handles |-> IF h = 1 THEN first
                                          ELSE IF h = 2 THEN second ELSE NO_FIELDS ]
    /\ enqueued = 2
    /\ discovered_host_ip = BROADCAST_ADDRESS
    /\ host_discovered = TRUE
    /\ pc_disc = "delay"
    /\ stdin = ""

NextFormat ==
    \/ FwdReceive
    \/ FwdFormat
    \/ FwdTransmit
    \/ FwdRelease

SpecFormat == InitFormat /\ [][NextFormat]_vars

(***************************************************************************)
(* The pipeline under a fairly scheduled forwarder: app_main has created   *)
(* the queue, registered the callback and created the forwarder task; the  *)
(* peer is undiscovered for ever, or the fallback address whose sends may  *)
(* fail every time; the driver delivers samples while the forwarder is     *)
(* still able to take them.                                                *)
(***************************************************************************)
InitLive ==
    /\ pc_main = "monitor"
    /\ queue_created = TRUE
    /\ csi_data_queue = << >>
    /\ udp_socket_descriptor = 3
    /\ wifi_started = TRUE
    /\ network_ready = TRUE
    /\ processed_packets = 0
    /\ host_discovered \in BOOLEAN
    /\ discovered_host_ip = IF host_discovered THEN BROADCAST_ADDRESS ELSE EMPTY_ADDRESS
    /\ csi_rx_cb = TRUE
    /\ live_struct = {}
    /\ live_buf = {}
    /\ csi_fields = [ h \in Handles |-> NO_FIELDS ]
    /\ heap_error = "none"
    /\ pc_cb = "idle"
    /\ csi_info = NO_INFO
    /\ csi_copy = NULL
    /\ pc_fwd = "start"
    /\ csi_data = NULL
    /\ last_tx = NO_TX
    /\ pc_disc = "delay"
    /\ found_addr = NO_ADDR
    /\ last_answer = << >>
    /\ datagrams = << >>
    /\ enqueued = 0
    /\ dropped = 0
    /\ received = 0
    /\ output_buffer = NO_RECORD
    /\ time_sync_established = FALSE
    /\ system_time = BOOT_TIME
    /\ g_cmd_processor = CMD_PROCESSOR_ZERO
    /\ stdin = ""
    /\ parsed_time = NO_PARSE
    /\ g_csi_config = [ mode |-> CSI_MODE_AMPLITUDE ]
    /\ typed_lines = NO_LINES
    /\ presync_samples = {}

\* one step of csi_data_processing_task
FwdStep ==
    \/ FwdStart
    \/ FwdReceive
    \/ FwdFormat
    \/ FwdTransmit
    \/ FwdRelease

NextLive ==
    \/ (enqueued < MaxProcessed /\ CbInvoke)
    \/ CbFilter
    \/ CbMallocStruct
    \/ CbMallocBuf
    \/ CbSend
    \/ FwdStep

\* the scheduler runs the forwarder task whenever it is ready
SpecLive == InitLive /\ [][NextLive]_vars /\ WF_vars(FwdStep)

(***************************************************************************)
(* The hand-over of the peer address at the level of single stores: the    *)
(* discovery loop runs its cycles while the forwarder sends two queued     *)
(* samples.                                                                *)
(***************************************************************************)
InitHandoff ==
    /\ pc_main = "monitor"
    /\ queue_created = TRUE
    /\ udp_socket_descriptor = 3
    /\ wifi_started = TRUE
    /\ network_ready = TRUE
    /\ processed_packets = 0
    /\ csi_rx_cb = TRUE
    /\ heap_error = "none"
    /\ pc_cb = "idle"
    /\ csi_info = NO_INFO
    /\ csi_copy = NULL
    /\ pc_fwd = "receive"
    /\ csi_data = NULL
    /\ last_tx = NO_TX
    /\ found_addr = NO_ADDR
    /\ last_answer = << >>
    /\ datagrams = << >>
    /\ dropped = 0
    /\ received = 0
    /\ output_buffer = NO_RECORD
    /\ time_sync_established = FALSE
    /\ system_time = BOOT_TIME
    /\ g_cmd_processor = CMD_PROCESSOR_ZERO
    /\ parsed_time = NO_PARSE
    /\ g_csi_config = [ mode |-> CSI_MODE_AMPLITUDE ]
    /\ typed_lines = NO_LINES
    /\ presync_samples = {}
    /\ csi_data_queue = << 1, 2 >>
    /\ live_struct = { 1, 2 }
    /\ live_buf = { 1, 2 }
    /\ csi_fields = [ h \in Handles |-> IF h \in { 1, 2 } THEN DriverFields ELSE NO_FIELDS ]
    /\ enqueued = 2
    /\ discovered_host_ip = EMPTY_ADDRESS
    /\ host_discovered = FALSE
    /\ pc_disc = "check"
    /\ stdin = ""

NextHandoff ==
    \/ DiscCheck
    \/ DiscQuery
    \/ HandoffFallbackCheck
    \/ HandoffStoreChar
    \/ HandoffStoreFlag
    \/ HandoffComplete
    \/ DiscDelay
    \/ FwdReceive
    \/ FwdFormat
    \/ FwdTransmit
    \/ FwdRelease

SpecHandoff == InitHandoff /\ [][NextHandoff]_vars

(***************************************************************************)
(* Properties of the sample queue and of the sample memory.                *)
(***************************************************************************)
Range(s) == { s[i] : i \in 1..Len(s) }

\* the steps of one callback invocation after the driver's call
CbStep == CbFilter \/ CbMallocStruct \/ CbMallocBuf \/ CbSend \/ CbDrop

\* C1: whatever the interleaving of the callback's enqueue attempts and the
\* forwarder's dequeues, the queue holds between 0 and 64 handles.
C1_QueueWithinCapacity ==
    /\ Len(csi_data_queue) >= 0
    /\ Len(csi_data_queue) <= 64
    /\ Len(csi_data_queue) = enqueued - received

C1_Witness ==
    /\ Len(csi_data_queue) = 64
    /\ received > 0
    /\ dropped > 0

\* C2: an enqueue attempt on a queue of 64 handles fails and leaves the queue
\* and its order as they were; the handle given up (and then released by the
\* callback) is the incoming one, and no callback step removes a queued handle.
C2_DropsIncomingSample ==
    [][ /\ (pc_cb = "send" /\ pc_cb' # "send" /\ Len(csi_data_queue) = 64)
            => /\ csi_data_queue' = csi_data_queue
               /\ enqueued' = enqueued
               /\ dropped' = dropped + 1
               /\ pc_cb' = "drop"
               /\ csi_copy' = csi_copy
               /\ csi_copy \notin Range(csi_data_queue)
        /\ (pc_cb = "drop" /\ pc_cb' # "drop")
            => /\ csi_data_queue' = csi_data_queue
               /\ csi_copy \notin live_struct' \cup live_buf'
               /\ Range(csi_data_queue) \subseteq live_struct' \cap live_buf'
        /\ (pc_cb' # pc_cb)
            => /\ Len(csi_data_queue') >= Len(csi_data_queue)
               /\ SubSeq(csi_data_queue', 1, Len(csi_data_queue)) = csi_data_queue
      ]_vars

C2_Witness ==
    /\ pc_cb = "idle"
    /\ dropped = 1
    /\ received = 0
    /\ csi_data_queue = [ i \in 1..64 |-> i ]
    /\ live_struct = 1..64

\* the handles a stage holds
HeldByCallback == IF pc_cb \in { "malloc_buf", "send", "drop" } THEN { csi_copy } ELSE {}
HeldByForwarder == IF pc_fwd \in { "format", "transmit", "release" } THEN { csi_data } ELSE {}

\* C3: every sample copy is released exactly once, by the forwarder when the
\* enqueue succeeded and by the callback when it failed: no block is freed
\* twice or read after its release, every allocated copy is held by exactly one
\* of callback, queue and forwarder, and a stage that handed a copy on or
\* released it holds no handle to it.
C3_ReleasedExactlyOnce ==
    /\ heap_error = "none"
    /\ live_struct = HeldByCallback \cup Range(csi_data_queue) \cup HeldByForwarder
    /\ live_buf \subseteq live_struct
    /\ Range(csi_data_queue) \cup HeldByForwarder \subseteq live_buf
    /\ pc_cb \in { "send", "drop" } => csi_copy \in live_buf
    /\ HeldByCallback \cap Range(csi_data_queue) = {}
    /\ HeldByForwarder \cap Range(csi_data_queue) = {}
    /\ HeldByCallback \cap HeldByForwarder = {}
    /\ Cardinality(Range(csi_data_queue)) = Len(csi_data_queue)
    /\ pc_cb \in { "idle", "entry", "malloc_struct" } => csi_copy = NULL
    /\ pc_fwd \in { "none", "start", "receive", "deleted" } => csi_data = NULL

C3_Witness ==
    /\ dropped >= 1
    /\ received = 2
    /\ pc_cb = "idle"
    /\ pc_fwd = "receive"
    /\ live_struct = Range(csi_data_queue)
    /\ { 1, 2 } \cap live_struct = {}

\* C4: the callback never waits for the consumer: in every state in which an
\* invocation is under way, whatever the queue holds and wherever the forwarder
\* is, the invocation's next step can be taken.
C4_CallbackNeverWaits ==
    pc_cb # "idle" => ENABLED CbStep

C4_Witness ==
    /\ pc_cb = "send"
    /\ Len(csi_data_queue) = 64
    /\ pc_fwd = "deleted"

\* C5: with no dequeue so far, k >= 64 samples offered to the empty queue give
\* exactly k - 64 drops and leave the first 64 samples queued, in order.
C5_DropsBeyondCapacity ==
    LET k == enqueued + dropped
    IN  received = 0 =>
            /\ k <= 64 => (dropped = 0 /\ csi_data_queue = [ i \in 1..k |-> i ])
            /\ k >= 64 => /\ dropped = k - 64
                          /\ Len(csi_data_queue) = 64
                          /\ csi_data_queue = [ i \in 1..64 |-> i ]

C5_Witness ==
    /\ received = 0
    /\ enqueued + dropped = 65
    /\ dropped = 1
    /\ Len(csi_data_queue) = 64
    /\ pc_cb = "idle"

(***************************************************************************)
(* Properties of the admission filter.                                     *)
(***************************************************************************)
\* the identities of the claim, as bytes
AllowListBytes == { << 160, 183, 101, 90, 8, 165 >>, << 36, 10, 196, 201, 37, 216 >> }

\* C6: is_authorized_research_device is true for an identity exactly when its
\* six bytes are those of a0:b7:65:5a:08:a5 or of 24:0a:c4:c9:25:d8; the
\* callback goes on to copy the sample exactly for those identities, and the
\* filtering step changes nothing but the callback's own position.
C6_FilterMatchesAllowList ==
    /\ [](pc_cb = "entry" =>
            (is_authorized_research_device(csi_info.mac) <=> csi_info.mac \in AllowListBytes))
    /\ [][ (pc_cb = "entry" /\ csi_info.buf /\ pc_cb' # "entry")
             => /\ ((pc_cb' = "malloc_struct") <=> (csi_info.mac \in AllowListBytes))
                /\ pc_cb' \in { "malloc_struct", "idle" }
                /\ UNCHANGED << main_vars, csi_data_queue, network_ready, console_vars, peer_vars,
                                heap_vars, fwd_vars, disc_vars, enqueued, dropped >>
          ]_vars

C6_Witness ==
    /\ pc_cb = "malloc_struct"
    /\ csi_info.mac = << 36, 10, 196, 201, 37, 216 >>

(***************************************************************************)
(* Properties of peer discovery and of the forwarder.                      *)
(***************************************************************************)
\* C7: a discovery cycle whose query gave no result writes 192.168.4.255 as the
\* peer address and then marks the peer resolved; from then on address and
\* flag stay, and every transmit step of the forwarder is a sendto to that
\* address (never skipped, never waiting).
C7_FallbackIsUsed ==
    /\ [][
            /\ (pc_disc = "fallback" /\ ~host_discovered /\ pc_disc' # pc_disc)
                => /\ discovered_host_ip' = "192.168.4.255"
                   /\ pc_disc' = "fallback_flag"
            /\ (pc_disc = "fallback_flag" /\ pc_disc' # pc_disc)
                => /\ host_discovered'
                   /\ discovered_host_ip' = "192.168.4.255"
            /\ (host_discovered /\ discovered_host_ip = "192.168.4.255")
                => /\ host_discovered'
                   /\ discovered_host_ip' = "192.168.4.255"
            /\ (host_discovered /\ discovered_host_ip = "192.168.4.255"
                    /\ pc_fwd = "transmit" /\ pc_fwd' # "transmit")
                => /\ last_tx'.outcome \in { "sent", "failed" }
                   /\ last_tx'.dest = "192.168.4.255"
                   /\ (last_tx'.outcome = "sent" =>
                        datagrams' = Append(datagrams,
                                        [ sample |-> csi_data, dest |-> "192.168.4.255" ]))
          ]_vars
    /\ [](pc_fwd = "transmit" => ENABLED FwdTransmit)

C7_Witness ==
    /\ host_discovered
    /\ received = 2
    /\ pc_fwd = "receive"
    /\ datagrams = << [ sample |-> 1, dest |-> "192.168.4.255" ],
                      [ sample |-> 2, dest |-> "192.168.4.255" ] >>

\* the entries of an answer that carry an address and a hostname
UsableEntries(answer) ==
    { i \in 1..Len(answer) : answer[i].addr # NO_ADDR /\ answer[i].hostname }

\* C8 as stated: whenever the query returned one or more results, the address
\* stored is that of the first result and the peer is resolved from the query.
C8_FirstResultSelected ==
    last_answer # << >> =>
        /\ pc_disc \in { "store_ip", "set_flag", "fallback" }
        /\ (pc_disc = "store_ip" => found_addr = last_answer[1].addr)
        /\ (pc_disc \in { "set_flag", "fallback" } =>
                discovered_host_ip = last_answer[1].addr)
        /\ (pc_disc = "fallback" => host_discovered)

\* C8 amended: the address stored is that of the first result, in response
\* order, that carries both an address and a hostname, and the peer is then
\* marked resolved with that address; when no result carries both, nothing is
\* stored from the query and the cycle goes on to the fallback.
C8_FirstUsableResultSelected ==
    /\ [](last_answer # << >> =>
            IF UsableEntries(last_answer) = {}
            THEN pc_disc = "fallback" /\ ~host_discovered
            ELSE LET first == CHOOSE i \in UsableEntries(last_answer) :
                                \A j \in UsableEntries(last_answer) : i <= j
                 IN  /\ pc_disc \in { "store_ip", "set_flag", "fallback" }
                     /\ (pc_disc = "store_ip" => found_addr = last_answer[first].addr)
                     /\ (pc_disc \in { "set_flag", "fallback" } =>
                            discovered_host_ip = last_answer[first].addr)
                     /\ (pc_disc = "fallback" => host_discovered))
    /\ [][ (pc_disc = "set_flag" /\ pc_disc' # pc_disc)
             => (host_discovered' /\ discovered_host_ip' = discovered_host_ip) ]_vars

C8_Witness ==
    /\ pc_disc = "fallback"
    /\ host_discovered
    /\ Len(last_answer) = 2
    /\ last_answer[1].addr = "192.168.4.2"
    /\ ~last_answer[1].hostname
    /\ discovered_host_ip = "192.168.4.3"

\* C9: a peer resolved from a query result keeps its address and stays
\* resolved through every later step of the discovery task.
C9_NoRegressToFallback ==
    [][ (host_discovered /\ discovered_host_ip # "192.168.4.255")
         => (host_discovered' /\ discovered_host_ip' = discovered_host_ip) ]_vars

C9_Witness ==
    /\ pc_disc = "query" \/ pc_disc = "check"
    /\ host_discovered
    /\ discovered_host_ip = "192.168.4.2"
    /\ last_tx = [ outcome |-> "sent", dest |-> "192.168.4.2" ]

\* the handles the forwarder has taken from the queue and is done with
Dequeued == (1..enqueued) \ (Range(csi_data_queue) \cup HeldByForwarder)

\* C10: every sample the forwarder took from the queue is released, struct
\* and payload, whatever transmit_csi_data did (sent, failed, skipped), and a
\* transmit step taken while no peer is discovered sends no datagram.
C10_ReleasedWhateverTheOutcome ==
    /\ [](
          /\ Dequeued \cap (live_struct \cup live_buf) = {}
          /\ Cardinality(Dequeued) + Cardinality(HeldByForwarder) = received
          /\ (pc_fwd = "receive" => csi_data = NULL)
          /\ (pc_fwd = "release" => last_tx.outcome \in { "sent", "failed", "skipped" }))
    /\ [][
            /\ (pc_fwd = "release" /\ pc_fwd' # "release")
                => /\ pc_fwd' = "receive"
                   /\ csi_data \notin live_struct' \cup live_buf'
                   /\ heap_error' = "none"
            /\ (pc_fwd = "transmit" /\ pc_fwd' # "transmit")
                => pc_fwd' = "release"
            /\ (pc_fwd = "transmit" /\ pc_fwd' # "transmit" /\ ~host_discovered)
                => /\ datagrams' = datagrams
                   /\ last_tx'.outcome = "skipped"
            /\ ~host_discovered => datagrams' = datagrams
          ]_vars

C10_Witness ==
    /\ received = 2
    /\ pc_fwd = "receive"
    /\ last_tx.outcome = "failed"
    /\ datagrams = << >>
    /\ { 1, 2 } \cap (live_struct \cup live_buf) = {}

\* C11: a failed or skipped transmission neither stops the forwarder nor is
\* tried again: a sample reaches its transmit step with no send attempt made
\* for it, the one transmit step (sent, failed or skipped) leads to the release
\* and the release back to the blocking dequeue, no sample is sent twice, and
\* the dequeue of the next sample does not depend on the last outcome.
C11_NoRetryNoStop ==
    /\ [](
          /\ (pc_fwd \in { "format", "transmit" } => last_tx = NO_TX)
          /\ Cardinality({ datagrams[i].sample : i \in 1..Len(datagrams) }) = Len(datagrams)
          /\ Len(datagrams) <= received
          /\ (pc_fwd = "receive" /\ csi_data_queue # << >> /\ received < MaxProcessed
                => ENABLED FwdReceive))
    /\ [][
            /\ (pc_fwd = "transmit" /\ (pc_fwd' # pc_fwd \/ last_tx' # last_tx))
                => /\ pc_fwd' = "release"
                   /\ csi_data' = csi_data
                   /\ last_tx'.outcome \in { "sent", "failed", "skipped" }
                   /\ Len(datagrams') <= Len(datagrams) + 1
            /\ (pc_fwd = "release" /\ pc_fwd' # pc_fwd)
                => /\ pc_fwd' = "receive"
                   /\ last_tx' = last_tx
                   /\ datagrams' = datagrams
            /\ (pc_fwd = "receive" /\ pc_fwd' # pc_fwd)
                => /\ pc_fwd' = "format"
                   /\ csi_data' = Head(csi_data_queue)
                   /\ last_tx' = NO_TX
            /\ (pc_fwd \in { "receive", "format", "transmit", "release" })
                => pc_fwd' # "deleted"
            /\ (pc_fwd # "transmit") => datagrams' = datagrams
          ]_vars

C11_Witness ==
    /\ received = 2
    /\ pc_fwd = "receive"
    /\ last_tx.outcome = "sent"
    /\ processed_packets = 1
    /\ datagrams = << [ sample |-> 2, dest |-> "192.168.4.255" ] >>

(***************************************************************************)
(* Properties of the command processor and of time synchronisation.        *)
(***************************************************************************)
\* the loop reads the terminator of the buffered line: process_received_command
\* runs on command_text
Dispatches(command_text) ==
    /\ stdin # ""
    /\ Char(stdin, 1) \in { "\n", "\r" }
    /\ g_cmd_processor.command_buffer = command_text
    /\ stdin' # stdin

\* the console is idle and only well-formed and unknown lines were typed
OnlyCountedLines == stdin = "" /\ typed_lines.other = 0

\* C12 as stated: after N well-formed status, help and time-sync lines, in any
\* order and between any unknown lines, the counter of handled commands is N.
C12_CounterIsWellFormedLines ==
    OnlyCountedLines => g_cmd_processor.commands_processed = typed_lines.wellformed

\* C12 (amended): after N well-formed status, help and time-sync lines, of which
\* R were time-sync lines whose settimeofday call was refused, in any order and
\* between any unknown lines, the counter of handled commands is N - R (N when
\* every clock update is accepted); the dispatch of an unknown line never
\* changes the counter.
C12_CounterIsHandledLines ==
    /\ [](OnlyCountedLines =>
            g_cmd_processor.commands_processed
                = typed_lines.wellformed - typed_lines.clock_refused)
    /\ [](OnlyCountedLines /\ typed_lines.clock_refused = 0 =>
            g_cmd_processor.commands_processed = typed_lines.wellformed)
    /\ [][ \A line \in UnknownLines :
             Dispatches(line) =>
                g_cmd_processor'.commands_processed = g_cmd_processor.commands_processed
         ]_vars

C12_Witness ==
    /\ stdin = ""
    /\ typed_lines = [ wellformed |-> 2, unknown |-> 1, other |-> 0, clock_refused |-> 0 ]
    /\ g_cmd_processor.commands_processed = 2
    /\ time_sync_established
    /\ system_time = [ tv_sec |-> 100, tv_usec |-> 500000 ]

\* C12: a run in which a well-formed time-sync line was refused by settimeofday
C12_RefusedWitness ==
    /\ stdin = ""
    /\ typed_lines = [ wellformed |-> 2, unknown |-> 0, other |-> 0, clock_refused |-> 1 ]
    /\ g_cmd_processor.commands_processed = 1

\* console lines that do not begin with a number, with or without the prefix
NonNumericLines ==
    { "help", "?", "status", "INFO", "reboot", "helpme", "CSI_MODE 1", "SYNC_TIME: abc", " " }

\* C13 as stated: "SYNC_TIME: 100.500000" parses to (100, 500000, true);
\* "100.-5" and every non-numeric line parse with success false, and their
\* dispatch leaves the clock and the synchronized flag as they were.
C13_NegativeMicrosRejected ==
    [][ /\ Dispatches("SYNC_TIME: 100.500000")
            => parsed_time' = [ seconds |-> 100, microseconds |-> 500000,
                                parse_success |-> TRUE, called |-> TRUE ]
        /\ \A line \in NonNumericLines \cup { "100.-5" } :
            Dispatches(line)
                => /\ ~parse_timestamp_string(line).parse_success
                   /\ UNCHANGED << system_time, time_sync_established >>
      ]_vars

\* C13 (amended): "SYNC_TIME: 100.500000" parses to (100, 500000, true); every
\* non-numeric line parses with success false, and the dispatch of any line
\* whose parse fails leaves the clock and the synchronized flag as they were;
\* "100.-5" parses with success true to (100, 0), and its dispatch either sets
\* the clock to (100, 0) and the flag, or (settimeofday refusing) leaves both.
C13_NegativeMicrosClamped ==
    [][ /\ Dispatches("SYNC_TIME: 100.500000")
            => parsed_time' = [ seconds |-> 100, microseconds |-> 500000,
                                parse_success |-> TRUE, called |-> TRUE ]
        /\ \A line \in NonNumericLines :
            Dispatches(line) => ~parse_timestamp_string(line).parse_success
        /\ \A line \in ConsoleLines :
            (Dispatches(line) /\ ~parse_timestamp_string(line).parse_success)
                => /\ UNCHANGED << system_time, time_sync_established >>
                   /\ ~parsed_time'.parse_success \/ parsed_time' = parsed_time
        /\ Dispatches("100.-5")
            => /\ parsed_time' = [ seconds |-> 100, microseconds |-> 0,
                                   parse_success |-> TRUE, called |-> TRUE ]
               /\ \/ /\ system_time' = [ tv_sec |-> 100, tv_usec |-> 0 ]
                     /\ time_sync_established'
                  \/ UNCHANGED << system_time, time_sync_established >>
      ]_vars

C13_Witness ==
    /\ stdin = ""
    /\ typed_lines = [ wellformed |-> 0, unknown |-> 0, other |-> 1, clock_refused |-> 0 ]
    /\ parsed_time = [ seconds |-> 100, microseconds |-> 0,
                       parse_success |-> TRUE, called |-> TRUE ]
    /\ system_time = [ tv_sec |-> 100, tv_usec |-> 0 ]
    /\ time_sync_established
    /\ g_cmd_processor.commands_processed = 1

\* timestamp lines whose seconds field parses, with the seconds and the
\* microseconds their parse has to give
ClampCases ==
    { << "100.500000", 100, 500000 >>, << "SYNC_TIME: 100.500000", 100, 500000 >>,
      << "SYNC_TIME: 7.999999", 7, 999999 >>, << "7.1000000", 7, 0 >>,
      << "100.-5", 100, 0 >>, << "8", 8, 0 >> }

\* the time-sync line under dispatch parses
DispatchesTimestamp(line) ==
    /\ Dispatches(line)
    /\ classify_command(line) = "CMD_TYPE_TIME_SYNC"
    /\ parse_timestamp_string(line).parse_success

\* C14 as stated: a microsecond value outside [0, 1000000) is replaced by 0, a
\* value inside is kept, and the dispatch of every line that parses sets the
\* clock to (seconds, microseconds) and the synchronized flag.
C14_ParsedTimeAlwaysApplied ==
    [][ /\ \A c \in ClampCases :
            Dispatches(c[1])
                => parsed_time' = [ seconds |-> c[2], microseconds |-> c[3],
                                    parse_success |-> TRUE, called |-> TRUE ]
        /\ \A line \in ConsoleLines :
            DispatchesTimestamp(line)
                => /\ system_time' = [ tv_sec |-> parsed_time'.seconds,
                                       tv_usec |-> parsed_time'.microseconds ]
                   /\ time_sync_established'
      ]_vars

\* C14 (amended): a microsecond value outside [0, 1000000) is replaced by 0 and
\* a value inside is kept; the dispatch of a line that parses sets the clock to
\* (seconds, microseconds) and the synchronized flag and counts the command
\* when settimeofday accepts the time, and leaves clock, flag and counter as
\* they were when settimeofday refuses it.
C14_ParsedTimeAppliedIfAccepted ==
    [][ /\ \A c \in ClampCases :
            Dispatches(c[1])
                => parsed_time' = [ seconds |-> c[2], microseconds |-> c[3],
                                    parse_success |-> TRUE, called |-> TRUE ]
        /\ \A line \in ConsoleLines :
            DispatchesTimestamp(line)
                => /\ \E c \in ClampCases : c[1] = line
                   /\ parsed_time'.microseconds \in 0..999999
                   /\ LET raw == IF sscanf(line, TIMESTAMP_FORMAT_EXTENDED).fields > 0
                                 THEN sscanf(line, TIMESTAMP_FORMAT_EXTENDED)
                                 ELSE sscanf(line, TIMESTAMP_FORMAT_SIMPLE)
                      IN  (raw.usec_val >= 0 /\ raw.usec_val < 1000000)
                              => parsed_time'.microseconds = raw.usec_val
                   /\ typed_lines'.clock_refused = typed_lines.clock_refused
                        => /\ system_time' = [ tv_sec |-> parsed_time'.seconds,
                                               tv_usec |-> parsed_time'.microseconds ]
                           /\ time_sync_established'
                           /\ g_cmd_processor'.commands_processed
                                = g_cmd_processor.commands_processed + 1
                   /\ typed_lines'.clock_refused # typed_lines.clock_refused
                        => /\ UNCHANGED << system_time, time_sync_established >>
                           /\ g_cmd_processor'.commands_processed
                                = g_cmd_processor.commands_processed
      ]_vars

C14_Witness ==
    /\ stdin = ""
    /\ typed_lines = [ wellformed |-> 1, unknown |-> 0, other |-> 2, clock_refused |-> 1 ]
    /\ parsed_time = [ seconds |-> 7, microseconds |-> 0,
                       parse_success |-> TRUE, called |-> TRUE ]
    /\ system_time = [ tv_sec |-> 7, tv_usec |-> 999999 ]
    /\ time_sync_established
    /\ g_cmd_processor.commands_processed = 2

\* C15: the dispatch of a line classified as unknown leaves the system clock,
\* the synchronized flag, the counter of handled commands, the processing mode
\* and the peer address and its flag as they were; it resets the line buffer.
C15_UnknownChangesNothing ==
    [][ \A line \in ConsoleLines :
            (Dispatches(line) /\ classify_command(line) = "CMD_TYPE_UNKNOWN")
                => /\ UNCHANGED << system_time, time_sync_established >>
                   /\ g_cmd_processor'.commands_processed = g_cmd_processor.commands_processed
                   /\ UNCHANGED g_csi_config
                   /\ UNCHANGED << discovered_host_ip, host_discovered >>
                   /\ g_cmd_processor'.command_buffer = ""
                   /\ g_cmd_processor'.buffer_position = 0
      ]_vars

C15_Witness ==
    /\ classify_command("reboot") = "CMD_TYPE_UNKNOWN"
    /\ classify_command("helpme") = "CMD_TYPE_UNKNOWN"
    /\ stdin = ""
    /\ typed_lines = [ wellformed |-> 1, unknown |-> 2, other |-> 0, clock_refused |-> 0 ]
    /\ g_cmd_processor = [ command_buffer |-> "", buffer_position |-> 0,
                           commands_processed |-> 1 ]
    /\ time_sync_established
    /\ system_time = [ tv_sec |-> 100, tv_usec |-> 500000 ]

(***************************************************************************)
(* Properties of start-up.                                                 *)
(***************************************************************************)
\* C16: when storage initialisation, queue creation, access-point
\* configuration, socket creation or CSI initialisation fails, app_main returns
\* at that step and stays returned: the forwarder task and the discovery task
\* are never created and the command monitoring loop is never started; both
\* tasks and the loop exist only after all five steps succeeded.
C16_FailedSetupStartsNothing ==
    /\ [](pc_main = "returned" => /\ pc_fwd = "none"
                                   /\ pc_disc = "none"
                                   /\ ~ENABLED MainCreateProcessor
                                   /\ ~ENABLED MainCreateDiscovery)
    /\ [](pc_fwd # "none" \/ pc_disc # "none" \/ pc_main = "monitor"
            => /\ queue_created
               /\ wifi_started
               /\ udp_socket_descriptor >= 0
               /\ csi_rx_cb
               /\ pc_main \in { "create_discovery", "monitor" })
    /\ [][ /\ (pc_main = "storage" /\ pc_main' # pc_main)
                => pc_main' \in { "queue", "returned" }
           /\ (pc_main = "queue" /\ pc_main' # pc_main /\ ~queue_created')
                => pc_main' = "returned"
           /\ (pc_main = "wifi" /\ pc_main' # pc_main /\ ~wifi_started')
                => pc_main' = "returned"
           /\ (pc_main = "socket" /\ pc_main' # pc_main /\ udp_socket_descriptor' < 0)
                => pc_main' = "returned"
           /\ (pc_main = "csi_init" /\ pc_main' # pc_main /\ ~csi_rx_cb')
                => pc_main' = "returned"
           /\ pc_main = "returned"
                => /\ pc_main' = "returned"
                   /\ pc_fwd' = "none"
                   /\ pc_disc' = "none"
         ]_vars

C16_Witness ==
    /\ pc_main = "returned"
    /\ queue_created
    /\ wifi_started
    /\ network_ready
    /\ udp_socket_descriptor = 3
    /\ ~csi_rx_cb
    /\ g_csi_config.mode = CSI_MODE_AMPLITUDE
    /\ pc_fwd = "none"
    /\ pc_disc = "none"

(***************************************************************************)
(* Properties of the peer address handed from discovery to the forwarder.  *)
(***************************************************************************)
\* C17: every discovery cycle that completes (the task reaches its 30 s delay)
\* leaves the peer resolved, also when the query of the cycle failed or
\* returned nothing.
C17_CycleLeavesPeerResolved ==
    [][ (pc_disc # "delay" /\ pc_disc' = "delay") => host_discovered' ]_vars

\* the addresses the discovery task ever means to store
CompleteAddresses == HostAddrs \cup { BROADCAST_ADDRESS }

C19_RecordReflectsCaptureTime ==
    (pc_fwd \in { "transmit", "release" } /\ csi_data \in presync_samples)
        => /\ output_buffer.sync = FALSE
           /\ output_buffer.timestamp = BOOT_TIME

\* the kind of value each processing mode derives from the payload
ModeKind(mode) ==
    CASE mode = CSI_MODE_RAW_DATA   -> "raw"
      [] mode = CSI_MODE_AMPLITUDE  -> "amplitude"
      [] mode = CSI_MODE_PHASE_INFO -> "phase"

\* C20: the values of the record the forwarder builds are derived according to
\* the processing mode configured at that moment, whether it was set by
\* initialize_csi_collection or by set_csi_processing_mode: payload bytes in raw
\* mode, one amplitude per pair in amplitude mode, one phase per pair in phase
\* mode.
C20_ValuesFollowMode ==
    [][ (pc_fwd = "format" /\ pc_fwd' = "transmit")
            => /\ Len(output_buffer'.values) > 0
               /\ \A i \in 1..Len(output_buffer'.values) :
                    output_buffer'.values[i].kind = ModeKind(g_csi_config.mode)
               /\ Len(output_buffer'.values) =
                    IF g_csi_config.mode = CSI_MODE_RAW_DATA
                    THEN output_buffer'.len ELSE output_buffer'.len \div 2
      ]_vars

(***************************************************************************)
(* Further properties of the command processor.                            *)
(***************************************************************************)
\* console lines that are a timestamp once leading and trailing white space
\* is removed, with the seconds and microseconds they carry
TrimmedTimestampCases ==
    { << "SYNC_TIME: 100.500000", 100, 500000 >>, << "100.500000", 100, 500000 >>,
      << "SYNC_TIME: 7.999999", 7, 999999 >>, << " SYNC_TIME: 100.500000", 100, 500000 >> }

\* C21: every console line that is a timestamp after trimming, also one with
\* leading white space, is classified as a time-sync command, and its dispatch
\* parses the same seconds and microseconds and (settimeofday accepting) sets
\* the clock and the synchronized flag and counts the command.
C21_DispatchAgreesWithClassification ==
    [][ \A c \in TrimmedTimestampCases :
            Dispatches(c[1])
                => /\ classify_command(c[1]) = "CMD_TYPE_TIME_SYNC"
                   /\ parsed_time' = [ seconds |-> c[2], microseconds |-> c[3],
                                       parse_success |-> TRUE, called |-> TRUE ]
                   /\ typed_lines'.clock_refused = typed_lines.clock_refused
                        => /\ system_time' = [ tv_sec |-> c[2], tv_usec |-> c[3] ]
                           /\ time_sync_established'
                           /\ g_cmd_processor'.commands_processed
                                = g_cmd_processor.commands_processed + 1
      ]_vars

\* C22: a terminator byte consumes one byte, dispatches the buffered line at
\* most once (the counter rises by one at most), and leaves the buffer empty
\* and the cursor at 0; the buffer always holds exactly the bytes of the
\* current line read so far, so no byte of a dispatched line is carried into
\* the next command.
C22_TerminatorClearsBuffer ==
    /\ [](/\ g_cmd_processor.buffer_position = Len(g_cmd_processor.command_buffer)
          /\ stdin = "" => g_cmd_processor.command_buffer = ""
          /\ stdin # "" =>
                \E line \in ConsoleLines, terminator \in { "\n", "\r" } :
                    g_cmd_processor.command_buffer \o stdin = line \o terminator)
    /\ [][ (stdin # "" /\ Char(stdin, 1) \in { "\n", "\r" } /\ stdin' # stdin)
             => /\ stdin' = SubSeq(stdin, 2, Len(stdin))
                /\ g_cmd_processor'.command_buffer = ""
                /\ g_cmd_processor'.buffer_position = 0
                /\ g_cmd_processor'.commands_processed
                     \in { g_cmd_processor.commands_processed,
                           g_cmd_processor.commands_processed + 1 }
         ]_vars

C22_Witness ==
    /\ stdin = "tus\n"
    /\ g_cmd_processor = [ command_buffer |-> "sta", buffer_position |-> 3,
                           commands_processed |-> 1 ]
    /\ typed_lines = [ wellformed |-> 2, unknown |-> 0, other |-> 0, clock_refused |-> 0 ]

\* C23: the cursor is always within 0..511; a byte that is no terminator and
\* arrives with the cursor at 511 clears the partial buffer and resets the
\* cursor, with no classification or dispatch: the counter of handled commands,
\* the clock, the synchronized flag and the last parse result stay.
C23_CursorWithinBuffer ==
    /\ [](/\ g_cmd_processor.buffer_position \in 0..511
          /\ g_cmd_processor.buffer_position = Len(g_cmd_processor.command_buffer))
    /\ [][ (/\ stdin # ""
            /\ Char(stdin, 1) \notin { "\n", "\r" }
            /\ g_cmd_processor.buffer_position = 511
            /\ stdin' # stdin)
             => /\ g_cmd_processor'.command_buffer = ""
                /\ g_cmd_processor'.buffer_position = 0
                /\ g_cmd_processor'.commands_processed = g_cmd_processor.commands_processed
                /\ UNCHANGED << system_time, time_sync_established, parsed_time, typed_lines >>
         ]_vars

C23_Witness ==
    /\ stdin = "x\nhelp\r"
    /\ g_cmd_processor = [ command_buffer |-> "", buffer_position |-> 0,
                           commands_processed |-> 1 ]
    /\ time_sync_established
    /\ system_time = [ tv_sec |-> 100, tv_usec |-> 500000 ]

\* the smaller of two numbers
Min(a, b) == IF a < b THEN a ELSE b

\* C24: the formatter emits min(64, floor(len / 2)) values for a sample of len
\* payload bytes, one per pair in order, and reads no payload index at or
\* beyond len.
C24_PairsEmitted ==
    [][ (pc_fwd = "format" /\ pc_fwd' # "format")
          => /\ Len(output_buffer'.values) = Min(64, csi_fields[csi_data].len \div 2)
             /\ \A i \in 1..Len(output_buffer'.values) :
                  /\ output_buffer'.values[i].pair = i - 1
                  /\ (output_buffer'.values[i].pair * 2) + 1 < csi_fields[csi_data].len
      ]_vars

C24_Witness ==
    /\ pc_fwd = "transmit"
    /\ csi_fields[csi_data].len = 384
    /\ Len(output_buffer.values) = 64
    /\ output_buffer.values[64].pair = 63

\* the offset before the snprintf of value i of a record
OffsetBefore(record, i) ==
    IF i = 1 THEN record.header ELSE record.values[i - 1].offset

\* C25: a formatted record stays within the 4096-byte buffer: the header is
\* stored whole, the write offset is below the buffer size after every
\* snprintf, a value is written only while the offset is below 4096 - 50, and
\* the record ends with "]" and a newline, terminating zero included.
C25_RecordWithinBuffer ==
    output_buffer # NO_RECORD =>
        /\ output_buffer.header < UDP_PAYLOAD_BUFFER_SIZE
        /\ \A i \in 1..Len(output_buffer.values) :
             /\ OffsetBefore(output_buffer, i) < UDP_PAYLOAD_BUFFER_SIZE - 50
             /\ output_buffer.values[i].offset < UDP_PAYLOAD_BUFFER_SIZE
        /\ output_buffer.closing = "]\n"
        /\ LoopOffset(output_buffer.header, output_buffer.values) + Len(output_buffer.closing)
             < UDP_PAYLOAD_BUFFER_SIZE

C25_Witness ==
    /\ pc_fwd = "transmit"
    /\ csi_fields[csi_data] = [ len |-> 384, rx_ctrl |-> -2147483647 ]
    /\ output_buffer.header = 283
    /\ Len(output_buffer.values) = 64
    /\ output_buffer.values[64].offset = 857
    /\ output_buffer.closing = "]\n"

\* C26: samples leave the queue in the order of their acceptance (the handles
\* are numbered in that order): the queue holds them oldest first, the k-th
\* sample the forwarder takes is the k-th accepted one and older than every
\* sample still queued, and the datagrams sent carry the samples in that order.
C26_AcceptanceOrder ==
    /\ \A i, j \in 1..Len(csi_data_queue) :
         i < j => csi_data_queue[i] < csi_data_queue[j]
    /\ csi_data_queue # << >> => csi_data_queue[Len(csi_data_queue)] = enqueued
    /\ csi_data # NULL
         => /\ csi_data = received
            /\ \A i \in 1..Len(csi_data_queue) : csi_data < csi_data_queue[i]
    /\ \A i, j \in 1..Len(datagrams) :
         i < j => datagrams[i].sample < datagrams[j].sample

C26_Witness ==
    /\ Len(datagrams) = 1
    /\ datagrams[1].sample = 1
    /\ pc_fwd = "transmit"
    /\ csi_data = 2
    /\ output_buffer # NO_RECORD
    /\ Len(csi_data_queue) >= 2

\* sample h is no longer owned by anyone: dequeued, and both blocks freed
Released(h) ==
    /\ h \notin Range(csi_data_queue)
    /\ csi_data # h
    /\ h \notin live_struct \cup live_buf

\* C27: with the forwarder scheduled fairly, every sample the queue accepted is
\* eventually dequeued and released, whether or not the peer is discovered and
\* whether or not a send succeeds, and the forwarder is stopped nowhere but at
\* the dequeue on an empty queue.
C27_EverySampleReleased ==
    /\ \A h \in 1..MaxProcessed : (h \in Range(csi_data_queue)) ~> Released(h)
    /\ [](pc_fwd # "deleted"
            => (ENABLED FwdStep \/ (pc_fwd = "receive" /\ csi_data_queue = << >>)))

\* the loop of the forwarder alone: once the task has its output buffer, every
\* sample in the queue is released
ReleasedOnceStarted ==
    /\ \A h \in 1..MaxProcessed :
         (h \in Range(csi_data_queue) /\ pc_fwd \notin { "start", "deleted" }) ~> Released(h)
    /\ [](pc_fwd # "deleted"
            => (ENABLED FwdStep \/ (pc_fwd = "receive" /\ csi_data_queue = << >>)))

\* the loop reads the terminator of a buffered line that is classified as a
\* time-sync command
DispatchesTimeSync ==
    /\ stdin # ""
    /\ Char(stdin, 1) \in { "\n", "\r" }
    /\ stdin' # stdin
    /\ classify_command(g_cmd_processor.command_buffer) = "CMD_TYPE_TIME_SYNC"

\* the time-sync command of this step parsed and settimeofday took the time
SyncSucceeds ==
    /\ parsed_time'.called
    /\ parsed_time'.parse_success
    /\ typed_lines'.clock_refused = typed_lines.clock_refused

\* C28: the synchronized flag is false at startup; the flag and the clock
\* change only in the dispatch of a time-sync command that parsed and whose
\* settimeofday succeeded, which sets the flag and writes the parsed time; a
\* time-sync command that does not parse, or whose settimeofday fails, leaves
\* the flag, the clock and the counter of handled commands as they were.
C28_FlagSetOnlyBySync ==
    /\ ~time_sync_established
    /\ [][ /\ (time_sync_established' # time_sync_established \/ system_time' # system_time)
                => /\ DispatchesTimeSync
                   /\ SyncSucceeds
                   /\ time_sync_established'
                   /\ system_time' = [ tv_sec |-> parsed_time'.seconds,
                                       tv_usec |-> parsed_time'.microseconds ]
           /\ (DispatchesTimeSync /\ ~SyncSucceeds)
                => /\ UNCHANGED << time_sync_established, system_time >>
                   /\ g_cmd_processor'.commands_processed
                        = g_cmd_processor.commands_processed
       ]_vars

C28_Witness ==
    /\ stdin = ""
    /\ time_sync_established
    /\ system_time = [ tv_sec |-> 100, tv_usec |-> 500000 ]
    /\ parsed_time.called
    /\ ~parsed_time.parse_success
    /\ g_cmd_processor.commands_processed = 1
    /\ typed_lines.other = 1

\* the sample the callback was called with has a payload and an identity of the
\* allow-list
Admitted == csi_info.buf /\ csi_info.mac \in AllowListBytes

\* C29: only an admitted sample is copied or enqueued: the callback is past its
\* filter, allocates a block or changes the queue only with an admitted sample,
\* and for any other sample it returns from its entry with the heap, the queue
\* and the counters of accepted and dropped samples unchanged.
C29_OnlyAdmittedSamplesCopied ==
    /\ [](pc_cb \in { "malloc_struct", "malloc_buf", "send", "drop" } => Admitted)
    /\ [][ /\ (pc_cb = "entry" /\ ~Admitted /\ pc_cb' # pc_cb)
                => /\ pc_cb' = "idle"
                   /\ UNCHANGED << csi_data_queue, heap_vars, enqueued, dropped >>
           /\ (~(live_struct' \subseteq live_struct) \/ ~(live_buf' \subseteq live_buf)
                 \/ enqueued' # enqueued)
                => Admitted
       ]_vars

C29_Witness ==
    /\ pc_cb = "entry"
    /\ csi_info.buf
    /\ csi_info.mac \notin AllowListBytes
    /\ Len(csi_data_queue) = 2
    /\ enqueued = 3
    /\ pc_fwd = "format"

\* C30: the queue exists whenever the callback is registered: the callback
\* runs, and a sample is enqueued, only with the queue created, although the
\* forwarder task is created only after the registration.
C30_QueueBeforeCallback ==
    /\ csi_rx_cb => queue_created
    /\ pc_cb # "idle" => queue_created
    /\ enqueued + dropped > 0 => queue_created
    /\ pc_fwd # "none" => csi_rx_cb

C30_Witness ==
    /\ pc_main = "create_processor"
    /\ pc_fwd = "none"
    /\ csi_rx_cb
    /\ queue_created
    /\ enqueued = 2
    /\ Len(csi_data_queue) = 2
    /\ pc_cb = "send"

\* what command_buffer holds at the terminator of a line of at most 1023
\* bytes: the line, or, when it did not fit, its bytes behind the 512th
BufferedAfter(line) ==
    IF Len(line) < MAX_COMMAND_LENGTH THEN line
    ELSE SubSeq(line, MAX_COMMAND_LENGTH + 1, Len(line))

\* the loop reads a byte that is no terminator
ReadsByte ==
    /\ stdin # ""
    /\ Char(stdin, 1) \notin { "\n", "\r" }
    /\ stdin' # stdin

\* C31: the byte that arrives with the buffer full is discarded with the
\* buffer's content; every following byte of the line is stored behind what
\* the emptied buffer holds; at the terminator of the over-long line the buffer
\* is the line's tail behind the discarded byte, and that tail is dispatched as
\* a command of its own: the tail "help" is counted as handled, a tail that is
\* no command is not.
C31_TailDispatchedAfterOverflow ==
    /\ [](stdin = "\nhelp\r"
            => g_cmd_processor.command_buffer \in { BufferedAfter(line) : line \in OverflowLines })
    /\ [][ /\ (ReadsByte /\ g_cmd_processor.buffer_position = MAX_COMMAND_LENGTH - 1)
                => /\ g_cmd_processor'.command_buffer = ""
                   /\ g_cmd_processor'.buffer_position = 0
                   /\ stdin' = SubSeq(stdin, 2, Len(stdin))
           /\ (ReadsByte /\ g_cmd_processor.buffer_position < MAX_COMMAND_LENGTH - 1)
                => /\ g_cmd_processor'.command_buffer
                        = g_cmd_processor.command_buffer \o Char(stdin, 1)
                   /\ g_cmd_processor'.buffer_position = g_cmd_processor.buffer_position + 1
                   /\ g_cmd_processor'.commands_processed = g_cmd_processor.commands_processed
           /\ (stdin = "\nhelp\r" /\ Dispatches("help"))
                => /\ g_cmd_processor'.commands_processed
                        = g_cmd_processor.commands_processed + 1
                   /\ g_cmd_processor'.command_buffer = ""
           /\ (stdin = "\nhelp\r" /\ stdin' # stdin
                 /\ g_cmd_processor.command_buffer # "help")
                => g_cmd_processor'.commands_processed = g_cmd_processor.commands_processed
       ]_vars

\* "status", then 512 filler bytes and "help": the tail was dispatched and counted
C31_Witness ==
    /\ stdin = "help\r"
    /\ g_cmd_processor = [ command_buffer |-> "", buffer_position |-> 0,
                           commands_processed |-> 2 ]
    /\ ~time_sync_established
    /\ parsed_time = NO_PARSE

====
